---- MODULE Spec2Model ----
(***************************************************************************)
(* Tsukeru furigana converter: the service worker's rate limiter, cache    *)
(* and Dispatcher (handleFuriganaRequest), and the content script's        *)
(* Batcher, Reassembler and reconciliation passes.                         *)
(*                                                                         *)
(* A JavaScript string is a sequence of tokens.  A token is a TLA+ string  *)
(* that stands for a fixed piece of text: one character ("_", "0", "a",    *)
(* " "), a run of characters ("W": 15000 kana) or one HTML tag             *)
(* ("<ruby>").  JsLen gives the length of the text a token stands for.     *)
(***************************************************************************)
EXTENDS Integers, Sequences, FiniteSets, TLC

VARIABLES
    now,               \* Date.now() of the service worker, in ms
    rateLimitBuckets,  \* utils.js:74, the admission records, oldest first
    rlog,              \* history: every checkCharRateLimit call, in call order
    ticks,             \* history: how often the clock has moved
    cache,             \* the IndexedDB store 'furigana': key -> {html, timestamp}
    disp,              \* the handleFuriganaRequest calls, one record each
    elems,             \* the elements of the page: child and data- attributes
    nodeText,          \* textContent of the text nodes
    processedNodes,    \* content-main.js:204
    processingQueue,   \* content-main.js:206
    isProcessing,      \* content-main.js:196
    isFuriganaActive,  \* content-main.js:197
    lastAppliedSettings, \* content-main.js:198, <<>> for null
    softHidden,        \* body has the class tsukeru-furigana-disabled
    mutationObserver,  \* content-main.js:199, TRUE while observing
    intersectionObserver, \* content-main.js:200, TRUE while observing
    youtubeCaptionObserver, \* content-main.js:202, TRUE while observing
    debounceTimer,     \* content-main.js:205, with the records of its callback
    captionTimer,      \* part_000:704, TRUE while the timeout is pending
    passes,            \* the running applyFurigana, processMutations,
                       \* processVisibleElements and processCaptions calls
    lastResponse,      \* history: what the last response did to the page
    edits,             \* history: how often the page has changed its content
    commands,          \* history: how many messages the popup has sent
    cleared,           \* history: clearFurigana has run and no applyFurigana
                       \* message has come since
    asked,             \* history: the settings of the last applyFurigana
                       \* message, <<>> when none has come
    hung,              \* the script is in a loop that does not end
                       \* (part_000:146-148) and runs nothing else
    alerts,            \* history: how many alert() dialogs the page has shown
    restored,          \* history: how many wrappers hardClearFurigana has
                       \* put the text back for
    fragments,         \* the texts of the text nodes handed to buildBatches
    built,             \* what buildBatches made of them
    sanitized,         \* a call of sanitizeHtmlFragment: its argument and
                       \* its result
    reassembled        \* a call of applyBatchResult on its own: its
                       \* processedHTML, and whether it has been made

rateVars == <<rateLimitBuckets, rlog>>
clockVars == <<now, ticks>>
bgVars == <<cache, disp>>
pageVars == <<elems, nodeText, processedNodes, processingQueue, isProcessing,
              isFuriganaActive, lastAppliedSettings, softHidden,
              mutationObserver, intersectionObserver, youtubeCaptionObserver,
              debounceTimer, captionTimer, passes, lastResponse, edits,
              commands, cleared, asked, hung, alerts, restored>>
batchVars == <<fragments, built, sanitized, reassembled>>
vars == <<now, rateLimitBuckets, rlog, ticks, cache, disp, pageVars, batchVars>>

\* ------------------------------------------------------------------ bounds

MaxRateCalls == 4
MaxRateTicks == 3
NDisp == 2
NPass == 2
MaxNodes == 5
MaxEdits == 1
MaxCommands == 2

\* --------------------------------------------------------------- constants

RATE_LIMIT_WINDOW_MS == 10000
RATE_LIMIT_MAX_CHARS == 50000
MAX_BATCH_CHARS == 15000

\* ----------------------------------------------------------------- helpers

Min(S) == CHOOSE x \in S : \A y \in S : x <= y

RECURSIVE SumLen(_)
SumLen(recs) ==
    IF recs = <<>> THEN 0 ELSE Head(recs).len + SumLen(Tail(recs))

\* ------------------------------------------------------------ rate limiter

\* utils.js:78-80: shift from the head while the head is older than the window
RECURSIVE DropExpired(_, _)
DropExpired(buckets, t) ==
    IF buckets # <<>> /\ t - Head(buckets).timestamp > RATE_LIMIT_WINDOW_MS
    THEN DropExpired(Tail(buckets), t)
    ELSE buckets

checkCharRateLimit_CeilingExcluded(buckets, t, nextLen) ==
    LET kept == DropExpired(buckets, t)
        used == SumLen(kept)
    IN  IF used + nextLen >= RATE_LIMIT_MAX_CHARS
        THEN [ok |-> FALSE, buckets |-> kept]
        ELSE [ok |-> TRUE,
              buckets |-> Append(kept, [timestamp |-> t, len |-> nextLen])]

\* utils.js:76-85: the result and the bucket list after the call
checkCharRateLimit(buckets, t, nextLen) ==
    LET kept == DropExpired(buckets, t)
        used == SumLen(kept)
    IN  IF used + nextLen > RATE_LIMIT_MAX_CHARS
        THEN [ok |-> FALSE, buckets |-> kept]
        ELSE [ok |-> TRUE,
              buckets |-> Append(kept, [timestamp |-> t, len |-> nextLen])]

\* ------------------------------------------------------------------ strings

\* the length of the text a token stands for ("W": a run of kana as long as
\* the batch ceiling; "V": a longer run, which with a "W" fills the rate
\* ceiling; every other token of an input text: one character)
JsLen(tok) ==
    CASE tok = "W" -> MAX_BATCH_CHARS
      [] tok = "V" -> RATE_LIMIT_MAX_CHARS - MAX_BATCH_CHARS
      [] OTHER -> 1

\* String.prototype.length
RECURSIVE StrLen(_)
StrLen(s) == IF s = <<>> THEN 0 ELSE JsLen(Head(s)) + StrLen(Tail(s))

\* pat occurs in text at the 0-based token index i
Occurs(text, pat, i) ==
    /\ i >= 0
    /\ i + Len(pat) <= Len(text)
    /\ \A k \in 1..Len(pat) : text[i + k] = pat[k]

\* String.prototype.indexOf(pat, from), 0-based, -1 when absent
IndexOf(text, pat, from) ==
    LET hits == {i \in from..(Len(text) - Len(pat)) : Occurs(text, pat, i)}
    IN  IF hits = {} THEN 0 - 1 ELSE Min(hits)

\* String.prototype.substring(a, b) for 0 <= a <= b <= length
Substring(text, a, b) == SubSeq(text, a + 1, b)

IsWhitespace(tok) == tok = " "

RECURSIVE TrimStart(_)
TrimStart(s) ==
    IF s # <<>> /\ IsWhitespace(Head(s)) THEN TrimStart(Tail(s)) ELSE s

RECURSIVE TrimEnd(_)
TrimEnd(s) ==
    IF s # <<>> /\ IsWhitespace(s[Len(s)])
    THEN TrimEnd(SubSeq(s, 1, Len(s) - 1)) ELSE s

\* String.prototype.trim
Trim(s) == TrimEnd(TrimStart(s))

\* text.replace(pat, () => by): the first occurrence of pat, pat not empty
ReplaceFirst(text, pat, by) ==
    LET i == IndexOf(text, pat, 0)
    IN  IF i < 0 THEN text
        ELSE Substring(text, 0, i) \o by
                \o Substring(text, i + Len(pat), Len(text))

RECURSIVE Concat(_)
\* Array.prototype.join('') of a list of strings
Concat(list) == IF list = <<>> THEN <<>> ELSE Head(list) \o Concat(Tail(list))

DigitChars == <<"0", "1", "2", "3", "4", "5", "6", "7", "8", "9">>

RECURSIVE Digits(_)
\* the decimal digits of n, as a template literal writes a number
Digits(n) ==
    IF n < 10 THEN <<DigitChars[n + 1]>>
    ELSE Digits(n \div 10) \o <<DigitChars[(n % 10) + 1]>>

\* part_000:32
TOKEN_PREFIX ==
    <<"_", "_", "T", "S", "U", "K", "E", "R", "U", "_",
      "S", "P", "L", "I", "T", "_", "_">>

\* a marker that does not number the text nodes of a batch
MarkerOf_BatchOnly(batchIndex, index) ==
    TOKEN_PREFIX \o Digits(batchIndex) \o <<"_", "_">>

\* part_000:349
MarkerOf(batchIndex, index) ==
    TOKEN_PREFIX \o Digits(batchIndex) \o <<"_">> \o Digits(index)
        \o <<"_", "_">>

\* ------------------------------------------------------------ dismantlePayload

\* utils.js:91
SplitPrefix ==
    <<"_", "_", "T", "S", "U", "K", "E", "R", "U", "_",
      "S", "P", "L", "I", "T", "_">>

RECURSIVE dismantleFrom(_, _)
\* utils.js:94-109, the loop from searchIndex on
dismantleFrom(text, searchIndex) ==
    IF ~(searchIndex < Len(text)) THEN <<>>
    ELSE
      LET markerStart == IndexOf(text, SplitPrefix, searchIndex)
      IN  IF markerStart = 0 - 1 THEN <<>>
          ELSE
            LET markerEnd ==
                  IndexOf(text, <<"_", "_">>, markerStart + Len(SplitPrefix)) + 2
            IN  IF markerEnd < 2 THEN <<>>
                ELSE
                  LET markerStr == Substring(text, markerStart, markerEnd)
                      nextMarkerStart == IndexOf(text, SplitPrefix, markerEnd)
                      textContent ==
                          IF nextMarkerStart = 0 - 1
                          THEN Substring(text, markerEnd, Len(text))
                          ELSE Substring(text, markerEnd, nextMarkerStart)
                  IN  <<[marker |-> markerStr, text |-> textContent]>>
                        \o dismantleFrom(text,
                              IF nextMarkerStart = 0 - 1 THEN Len(text)
                              ELSE nextMarkerStart)

\* utils.js:89-112
dismantlePayload(text) == dismantleFrom(text, 0)

\* ------------------------------------------------------------------- cache

\* bg-cache.js:27
IDB_CACHE_TTL == 604800000

\* bg-cache.js:29-34: a collision-free digest of the text
sha256Hash(message) == <<"sha256", message>>

\* a suffix made of the furigana type alone
settingsSuffix_TypeOnly(settings) ==
    <<"|", IF settings.furiganaType = "" THEN "hiragana"
           ELSE settings.furiganaType>>

\* utils.js:118; the furiganaType "" is a missing one
settingsSuffix(settings) ==
    <<"|", IF settings.furiganaType = "" THEN "hiragana"
           ELSE settings.furiganaType,
      "|", IF settings.firstOccurrenceOnly THEN "1" ELSE "0">>

\* utils.js:142-143
CacheKey(trimmed, settings) == <<sha256Hash(trimmed), settingsSuffix(settings)>>

\* what IndexedDB does in one cacheGet or cacheSet: everything succeeds, the
\* open request fails (bg-cache.js:41), db.transaction() throws (bg-cache.js:49,
\* 63), the get or put request fails (bg-cache.js:55), the transaction fails
\* (bg-cache.js:66)
StoreOutcomes == {"ok", "open", "transaction", "request", "txerror"}

\* the result null of cacheGet
NoHit == [hit |-> FALSE, html |-> <<>>, thrown |-> FALSE]

\* the promise of cacheGet or cacheSet is rejected
Rejected == [hit |-> FALSE, html |-> <<>>, thrown |-> TRUE]

\* bg-cache.js:45-58.  A failed open is caught (bg-cache.js:47, 57); an error
\* of the request resolves with null (bg-cache.js:55); a throw of
\* db.transaction() inside the executor rejects the promise that is returned
\* without an await, so the catch of bg-cache.js:57 does not see it.
cacheGet(store, key, t, storeHow) ==
    IF storeHow = "transaction" THEN Rejected
    ELSE IF storeHow # "ok" THEN NoHit
    ELSE IF key \notin DOMAIN store THEN NoHit
    ELSE IF t - store[key].timestamp > IDB_CACHE_TTL THEN NoHit
    ELSE [hit |-> TRUE, html |-> store[key].html, thrown |-> FALSE]

\* bg-cache.js:60-70: the store after the call, and whether the promise is
\* rejected
cacheSet(store, key, html, t, storeHow) ==
    [store |-> IF storeHow # "ok" THEN store
               ELSE [k \in DOMAIN store \cup {key} |->
                       IF k = key THEN [html |-> html, timestamp |-> t]
                       ELSE store[k]],
     thrown |-> storeHow = "transaction"]

\* --------------------------------------------------------- the remote service

\* the reading the service writes for a request: in the script asked for,
\* and marked when only first occurrences are to be annotated
Reading(request) ==
    <<IF request.furigana_type = "hiragana" THEN "x" ELSE "X">>
      \o (IF request.first_occurrence_only = "on" THEN <<"1">> ELSE <<>>)

\* the characters the service writes a reading for: the kanji, not the kana
IsKanji(tok) == tok \in {"a", "W", "V"}

RECURSIVE Annotate(_, _)
\* the annotation the service returns for a trimmed text: a ruby element for
\* every kanji, the other characters as they are
Annotate(t, request) ==
    IF t = <<>> THEN <<>>
    ELSE (IF IsKanji(Head(t))
          THEN <<"<ruby>", Head(t), "<rt>">> \o Reading(request)
                 \o <<"</rt>", "</ruby>">>
          ELSE <<Head(t)>>)
           \o Annotate(Tail(t), request)

\* what the service may do with one marker and its text: keep the marker and
\* the white space around the text, strip the white space, or drop both
Treat(chunk, how, request) ==
    LET t == Trim(chunk.text)
    IN  CASE how = "keep"  ->
               chunk.marker \o ReplaceFirst(chunk.text, t, Annotate(t, request))
          [] how = "strip" -> chunk.marker \o Annotate(t, request)
          [] how = "bold"  ->
               chunk.marker \o <<"<b>">> \o Annotate(t, request) \o <<"</b>">>
          [] OTHER         -> <<>>

Reverse(s) == [k \in 1..Len(s) |-> s[Len(s) + 1 - k]]

\* what one endpoint does (utils.js:199-229): a response no markup is taken
\* from (its status, a missing html field, an unreadable body), an exception,
\* or markup
FetchFailures == {"response", "exception"}

\* the markup an endpoint may answer with: every marker treated the same
\* way, the pairs in reverse order, or the first marker dropped
Markups == {"keep", "strip", "reverse", "dropFirst"}

Behaviours == FetchFailures \cup Markups

\* the body the service answers a request with (utils.js:188-197)
RemoteHtml(request, how) ==
    LET cs == dismantlePayload(request.raw_text)
        all(h) == [k \in 1..Len(cs) |-> Treat(cs[k], h, request)]
        without(j) == [k \in 1..Len(cs) |->
                         Treat(cs[k], IF k = j THEN "drop" ELSE "keep", request)]
    IN  IF cs = <<>> THEN Annotate(Trim(request.raw_text), request)
        ELSE CASE how = "reverse"   -> Concat(Reverse(all("keep")))
               [] how = "dropFirst" -> Concat(without(1))
               [] OTHER             -> Concat(all(how))

\* utils.js:186-229: what fetchFromAPI gets from one endpoint; markup it
\* cannot read anything from counts as a failure (utils.js:222)
FetchOutcome(request, how) ==
    IF how \in FetchFailures
    THEN [ok |-> FALSE, why |-> how, html |-> <<>>]
    ELSE LET html == RemoteHtml(request, how)
         IN  IF html = <<>> THEN [ok |-> FALSE, why |-> "response", html |-> <<>>]
             ELSE [ok |-> TRUE, why |-> "", html |-> html]

FetchOutcomes(request) == {FetchOutcome(request, how) : how \in Behaviours}

\* ------------------------------------------------------- handleFuriganaRequest

\* utils.js:64-70
DEFAULT_SETTINGS ==
    [jlptLevel |-> 5, furiganaType |-> "hiragana",
     firstOccurrenceOnly |-> FALSE, highlightMode |-> "off",
     watchDynamic |-> FALSE]

DispIds == 1..NDisp

IdleDisp ==
    [pc |-> "idle", payload |-> <<>>, settings |-> DEFAULT_SETTINGS,
     chunks |-> <<>>, i |-> 0, missing |-> <<>>, raw |-> FALSE,
     endpoint |-> 0, result |-> <<>>, output |-> <<>>, error |-> "",
     \* history: the fetches issued, the length admitted by the rate limiter,
     \* the cacheSet calls, the calls that had returned when this one began
     calls |-> 0, admitted |-> 0 - 1, writes |-> 0, after |-> {}]

FinalHtml_BlankUnmarked(chunks) ==
    Concat([k \in 1..Len(chunks) |->
              IF Trim(chunks[k].text) = <<>> THEN chunks[k].text
              ELSE chunks[k].marker \o chunks[k].html])

\* utils.js:176
FinalHtml(chunks) ==
    Concat([k \in 1..Len(chunks) |->
              chunks[k].marker
                \o (IF chunks[k].done THEN chunks[k].html ELSE chunks[k].text)])

\* utils.js:159
\* a sub-payload with every fragment of the batch
MissingPayload_WholeBatch(chunks, missing) ==
    Concat([k \in 1..Len(chunks) |-> chunks[k].marker \o chunks[k].text])

MissingPayload(chunks, missing) ==
    Concat([k \in 1..Len(missing) |->
              chunks[missing[k]].marker \o chunks[missing[k]].text])

RECURSIVE SumTexts(_)
SumTexts(chunks) ==
    IF chunks = <<>> THEN 0
    ELSE StrLen(Head(chunks).text) + SumTexts(Tail(chunks))

RECURSIVE MissingChars(_, _)
MissingChars_WholeBatch(chunks, missing) == SumTexts(chunks)

\* utils.js:154
MissingChars(chunks, missing) ==
    IF missing = <<>> THEN 0
    ELSE StrLen(chunks[Head(missing)].text) + MissingChars(chunks, Tail(missing))

\* utils.js:163, 166: new Map(pairs).get(marker) ?? fallback; of two pairs
\* with the same marker the later one wins
MapGetOr(parsed, marker, fallback) ==
    LET at == {k \in 1..Len(parsed) : parsed[k].marker = marker}
    IN  IF at = {} THEN fallback
        ELSE parsed[CHOOSE k \in at : \A j \in at : j <= k].text

\* utils.js:128, 160: the raw_text of the call's fetchFromAPI
SentText(me) ==
    IF me.raw THEN me.payload ELSE MissingPayload(me.chunks, me.missing)

\* utils.js:188-197: the form fields of the call's fetchFromAPI that depend
\* on the call; input_mode, engine, jlpt_level and csrf_token are fixed and
\* website_url is the address of the tab
Request(me) ==
    [jlpt_level |-> "5",
     furigana_type |-> IF me.settings.furiganaType = ""
                       THEN DEFAULT_SETTINGS.furiganaType
                       ELSE me.settings.furiganaType,
     first_occurrence_only |-> IF me.settings.firstOccurrenceOnly THEN "on"
                               ELSE "",
     raw_text |-> SentText(me)]

\* utils.js:114-129: the call up to its first await; the locals and the
\* bucket list after it
BeginCall(payload, settings, after, buckets, t) ==
    LET chunks == dismantlePayload(payload)
        base == [IdleDisp EXCEPT !.payload = payload, !.settings = settings,
                                 !.after = after]
        r == checkCharRateLimit(buckets, t, StrLen(payload))
    IN  IF chunks = <<>>
        THEN [me |-> IF r.ok
                     THEN [base EXCEPT !.pc = "fetch", !.raw = TRUE,
                                       !.endpoint = 1, !.calls = 1,
                                       !.admitted = StrLen(payload)]
                     ELSE [base EXCEPT !.pc = "failed", !.error = "rate"],
              buckets |-> r.buckets]
        ELSE [me |-> [base EXCEPT !.pc = "lookup", !.i = 1,
                         !.chunks = [k \in 1..Len(chunks) |->
                                       [marker |-> chunks[k].marker,
                                        text |-> chunks[k].text,
                                        done |-> FALSE, html |-> <<>>]]],
              buckets |-> buckets]

\* utils.js:133-150: one turn of the loop, with its cacheGet
LookupChunk(me, store, t, storeHow) ==
    LET chunk == me.chunks[me.i]
        trimmed == Trim(chunk.text)
        got == cacheGet(store, CacheKey(trimmed, me.settings), t, storeHow)
        chunks1 ==
            IF trimmed = <<>>
            THEN [me.chunks EXCEPT ![me.i].done = TRUE,
                                   ![me.i].html = chunk.text]
            ELSE IF got.hit
            THEN [me.chunks EXCEPT ![me.i].done = TRUE,
                     ![me.i].html = ReplaceFirst(chunk.text, trimmed, got.html)]
            ELSE me.chunks
        missing1 ==
            IF trimmed # <<>> /\ ~got.hit
            THEN Append(me.missing, me.i) ELSE me.missing
        last == me.i = Len(me.chunks)
    IN  IF trimmed # <<>> /\ got.thrown
        THEN [me EXCEPT !.pc = "failed", !.error = "store"]
        ELSE [me EXCEPT !.chunks = chunks1, !.missing = missing1,
                !.i = me.i + 1,
                !.pc = IF ~last THEN "lookup"
                       ELSE IF missing1 = <<>> THEN "done" ELSE "admit",
                !.output = IF last /\ missing1 = <<>>
                           THEN FinalHtml(chunks1) ELSE <<>>]

\* a rate check that hands back what the cache had when the misses are refused
AdmitCall_ReturnsHits(me, buckets, t) ==
    LET missingChars == MissingChars(me.chunks, me.missing)
        r == checkCharRateLimit(buckets, t, missingChars)
    IN  [me |-> IF r.ok
                THEN [me EXCEPT !.pc = "fetch", !.endpoint = 1, !.calls = 1,
                         !.admitted = missingChars]
                ELSE [me EXCEPT !.pc = "done", !.error = "rate",
                         !.output = FinalHtml(me.chunks)],
         buckets |-> r.buckets]

\* utils.js:153-160: the rate check of the misses and the first fetch
AdmitCall(me, buckets, t) ==
    LET missingChars == MissingChars(me.chunks, me.missing)
        r == checkCharRateLimit(buckets, t, missingChars)
    IN  [me |-> IF r.ok
                THEN [me EXCEPT !.pc = "fetch", !.endpoint = 1, !.calls = 1,
                         !.admitted = missingChars]
                ELSE [me EXCEPT !.pc = "failed", !.error = "rate"],
         buckets |-> r.buckets]

ReplyCall_MergesWhatItHas(me, outcome) ==
    IF outcome.ok
    THEN IF me.raw
         THEN [me EXCEPT !.pc = "done", !.result = outcome.html,
                         !.output = outcome.html]
         ELSE [me EXCEPT !.pc = "store", !.result = outcome.html, !.i = 1]
    ELSE IF me.endpoint = 1
         THEN [me EXCEPT !.endpoint = 2, !.calls = me.calls + 1]
         ELSE IF me.raw
         THEN [me EXCEPT !.pc = "failed", !.error = outcome.why]
         ELSE [me EXCEPT !.pc = "store", !.error = outcome.why, !.i = 1]

\* utils.js:186-232 (fetchFromAPI): the answer of the endpoint asked, then the
\* next endpoint, the throw of lastError, or utils.js:162-163
ReplyCall(me, outcome) ==
    IF outcome.ok
    THEN IF me.raw
         THEN [me EXCEPT !.pc = "done", !.result = outcome.html,
                         !.output = outcome.html]
         ELSE [me EXCEPT !.pc = "store", !.result = outcome.html, !.i = 1]
    ELSE IF me.endpoint = 1
         THEN [me EXCEPT !.endpoint = 2, !.calls = me.calls + 1]
         ELSE [me EXCEPT !.pc = "failed", !.error = outcome.why]

\* utils.js:165-177: one turn of the loop with its cacheSet, and after the
\* last turn the reassembly
StoreChunk(me, store, t, storeHow) ==
    LET at == me.missing[me.i]
        chunk == me.chunks[at]
        parsedChunks == dismantlePayload(me.result)
        rawHtml == MapGetOr(parsedChunks, chunk.marker, chunk.text)
        trimmed == Trim(chunk.text)
        chunks1 == [me.chunks EXCEPT ![at].done = TRUE, ![at].html = rawHtml]
        last == me.i = Len(me.missing)
        set == cacheSet(store, CacheKey(trimmed, me.settings), Trim(rawHtml),
                        t, storeHow)
    IN  IF trimmed # <<>> /\ set.thrown
        THEN [me |-> [me EXCEPT !.chunks = chunks1, !.pc = "failed",
                         !.error = "store"],
              store |-> store]
        ELSE [me |-> [me EXCEPT !.chunks = chunks1, !.i = me.i + 1,
                         !.writes = me.writes + (IF trimmed # <<>> THEN 1 ELSE 0),
                         !.pc = IF last THEN "done" ELSE "store",
                         !.output = IF last THEN FinalHtml(chunks1) ELSE <<>>],
              store |-> IF trimmed # <<>> THEN set.store ELSE store]

RECURSIVE ToAwait(_, _, _, _)
\* utils.js:133-160: the call from where it is to its next await; a blank
\* fragment is passed on without an await (utils.js:137-140), and after the
\* last turn of the loop the rate check and the fetch follow at once
ToAwait(me, store, buckets, t) ==
    IF me.pc = "lookup" /\ Trim(me.chunks[me.i].text) = <<>>
    THEN ToAwait(LookupChunk(me, store, t, "ok"), store, buckets, t)
    ELSE IF me.pc = "admit" THEN AdmitCall(me, buckets, t)
    ELSE [me |-> me, buckets |-> buckets]

RECURSIVE RunCall(_, _, _, _, _, _)
\* a call run from one await to its end without another call in between;
\* how1, how2: what the two endpoints do
RunCall(me, store, buckets, t, how1, how2) ==
    CASE me.pc = "lookup" ->
           RunCall(LookupChunk(me, store, t, "ok"), store, buckets, t, how1, how2)
      [] me.pc = "admit" ->
           LET r == AdmitCall(me, buckets, t)
           IN  RunCall(r.me, store, r.buckets, t, how1, how2)
      [] me.pc = "fetch" ->
           RunCall(ReplyCall(me, FetchOutcome(Request(me),
                                   IF me.endpoint = 1 THEN how1 ELSE how2)),
                   store, buckets, t, how1, how2)
      [] me.pc = "store" ->
           LET r == StoreChunk(me, store, t, "ok")
           IN  RunCall(r.me, r.store, buckets, t, how1, how2)
      [] OTHER -> [me |-> me, store |-> store, buckets |-> buckets]

\* utils.js:114-178: the call as a whole
handleFuriganaRequest(payload, settings, store, buckets, t, how1, how2) ==
    LET b == BeginCall(payload, settings, {}, buckets, t)
    IN  RunCall(b.me, store, b.buckets, t, how1, how2)

\* --------------------------------- the calls of the service worker, step by step

Start(d, payload, settings) ==
    /\ disp[d].pc = "idle"
    /\ d > 1 => disp[d - 1].pc # "idle"
    /\ \E b \in {BeginCall(payload, settings,
                            {e \in DispIds : disp[e].pc = "done"},
                            rateLimitBuckets, now)} :
         \E r \in {ToAwait(b.me, cache, b.buckets, now)} :
            /\ disp' = [disp EXCEPT ![d] = r.me]
            /\ rateLimitBuckets' = r.buckets
    /\ UNCHANGED <<rlog, clockVars, cache, pageVars, batchVars>>

Lookup(d, storeHow) ==
    /\ disp[d].pc = "lookup"
    /\ \E r \in {ToAwait(LookupChunk(disp[d], cache, now, storeHow), cache,
                          rateLimitBuckets, now)} :
         /\ disp' = [disp EXCEPT ![d] = r.me]
         /\ rateLimitBuckets' = r.buckets
    /\ UNCHANGED <<rlog, clockVars, cache, pageVars, batchVars>>

\* a service worker that gives the characters of a failed call back
AfterFetch_Refunds(buckets, me, outcome) ==
    IF outcome.ok \/ me.endpoint = 1 THEN buckets
    ELSE SelectSeq(buckets, LAMBDA r : r.len # me.admitted)

\* utils.js:160, 181-233: the bucket list after the answer of an endpoint;
\* neither fetchFromAPI nor the rejection of handleFuriganaRequest touches it
AfterFetch(buckets, me, outcome) == buckets

FetchReply(d) ==
    /\ disp[d].pc = "fetch"
    /\ \E outcome \in FetchOutcomes(Request(disp[d])) :
         /\ disp' = [disp EXCEPT ![d] = ReplyCall(disp[d], outcome)]
         /\ rateLimitBuckets' = AfterFetch(rateLimitBuckets, disp[d], outcome)
    /\ UNCHANGED <<rlog, clockVars, cache, pageVars, batchVars>>

Store(d, storeHow) ==
    /\ disp[d].pc = "store"
    /\ LET r == StoreChunk(disp[d], cache, now, storeHow)
       IN  /\ cache' = r.store
           /\ disp' = [disp EXCEPT ![d] = r.me]
    /\ UNCHANGED <<rateVars, clockVars, pageVars, batchVars>>

\* ========================================================= the content script

\* the options of the applyFurigana message (utils.js:64-70)
PageSettings == [DEFAULT_SETTINGS EXCEPT !.watchDynamic = TRUE]

\* part_000:93-99: the page is a YouTube page
currentSite == "youtube"

\* the text elements of the page in document order: three comment texts
\* (#content-text) and one caption segment (.ytp-caption-segment); every
\* element is visible and has one child, a text node or a wrapper, or none
InitialPage ==
    <<[text |-> <<"a">>, caption |-> FALSE],
      [text |-> <<"W">>, caption |-> FALSE],
      [text |-> <<"a">>, caption |-> FALSE],
      [text |-> <<"a">>, caption |-> TRUE]>>

Elems == DOMAIN InitialPage
NodeIds == 1..MaxNodes
CaptionElems == {e \in Elems : InitialPage[e].caption}
CommentElems == Elems \ CaptionElems

\* the content script's variables as one record
PageState ==
    [elems |-> elems, nodeText |-> nodeText,
     processedNodes |-> processedNodes, processingQueue |-> processingQueue,
     isProcessing |-> isProcessing, isFuriganaActive |-> isFuriganaActive,
     lastAppliedSettings |-> lastAppliedSettings, softHidden |-> softHidden,
     mutationObserver |-> mutationObserver,
     intersectionObserver |-> intersectionObserver,
     youtubeCaptionObserver |-> youtubeCaptionObserver,
     debounceTimer |-> debounceTimer, captionTimer |-> captionTimer,
     passes |-> passes, alerts |-> alerts, restored |-> restored,
     hung |-> hung, full |-> FALSE]

\* an element with the text node n as its child
TextChild(el, n) ==
    [el EXCEPT !.kind = "text", !.node = n, !.original = <<>>, !.html = <<>>]

\* node.parentNode: the element the text node n is the child of, or 0
ParentOf(pg, n) ==
    LET at == {e \in Elems : pg.elems[e].kind = "text" /\ pg.elems[e].node = n}
    IN  IF at = {} THEN 0 ELSE CHOOSE e \in at : TRUE

\* the elements that hold a wrapper: [data-tsukeru-wrapper="1"]
Wrappers(pg) == {e \in Elems : pg.elems[e].kind = "wrapper"}

NoTimer == [armed |-> FALSE, records |-> <<>>]

PassIds == 0..NPass
IdlePass ==
    [kind |-> "none", batches |-> <<>>, i |-> 0, unique |-> <<>>,
     settings |-> PageSettings]

RECURSIVE SeqToSet(_)
SeqToSet(s) == IF s = <<>> THEN {} ELSE {Head(s)} \cup SeqToSet(Tail(s))

\* the text nodes a running pass holds in its batches
PassNodes(pass) ==
    UNION {SeqToSet(pass.batches[k].nodes) : k \in 1..Len(pass.batches)}
      \cup SeqToSet(pass.unique)

\* the text nodes that can still be reached: in the document, in a running
\* pass, in processingQueue or in the records of the debounce timer
Live(pg) ==
    {pg.elems[e].node : e \in {x \in Elems : pg.elems[x].kind = "text"}}
      \cup UNION {PassNodes(pg.passes[p]) : p \in PassIds}
      \cup pg.processingQueue
      \cup {pg.debounceTimer.records[k].node :
              k \in 1..Len(pg.debounceTimer.records)}

\* the members of the WeakSet that can still be reached, and no text for a
\* node that cannot
Reachable(pg) ==
    [pg EXCEPT !.processedNodes = pg.processedNodes \cap Live(pg),
               !.nodeText = [n \in NodeIds |->
                               IF n \in Live(pg) THEN pg.nodeText[n] ELSE <<>>]]

\* the callbacks of the observers for a change of the children or the data
\* of nodes (part_000:636-648, 705-714): the debounce timer starts again with
\* the records of this callback, the caption timer starts again
Observed(pg, records, inCaption) ==
    [pg EXCEPT
       !.debounceTimer = IF pg.mutationObserver
                         THEN [armed |-> TRUE, records |-> records] ELSE @,
       !.captionTimer = IF pg.youtubeCaptionObserver /\ inCaption
                        THEN TRUE ELSE @]

\* ------------------------------------------------------------------ markup

\* the start tags of the markup of the model, with their attributes
OpenTags ==
    {"<ruby>", "<rt>", "<mark>", "<span>", "<span data-jlpt>", "<b>",
     "<script>", "<ruby onclick>", "<ruby data-x>"}

CloseTags == {"</ruby>", "</rt>", "</mark>", "</span>", "</b>", "</script>"}

TagTokens == OpenTags \cup CloseTags

\* node.tagName of the element a tag belongs to
TagOf(tok) ==
    CASE tok \in {"<ruby>", "<ruby onclick>", "<ruby data-x>", "</ruby>"} -> "RUBY"
      [] tok \in {"<rt>", "</rt>"} -> "RT"
      [] tok \in {"<mark>", "</mark>"} -> "MARK"
      [] tok \in {"<span>", "<span data-jlpt>", "</span>"} -> "SPAN"
      [] tok \in {"<b>", "</b>"} -> "B"
      [] OTHER -> "SCRIPT"

\* the names of node.attributes
AttrsOf(tok) ==
    CASE tok = "<span data-jlpt>" -> {"data-jlpt"}
      [] tok = "<ruby onclick>" -> {"onclick"}
      [] tok = "<ruby data-x>" -> {"data-x"}
      [] OTHER -> {}

\* the start tag innerHTML writes for an element with the attributes
StartTag(tag, attrs) ==
    CHOOSE tok \in OpenTags : TagOf(tok) = tag /\ AttrsOf(tok) = attrs

EndTag(tag) == CHOOSE tok \in CloseTags : TagOf(tok) = tag

\* the end tag of the element whose start tag is html[a]
EndOf(html, a) ==
    Min({j \in (a + 1)..Len(html) :
           /\ html[j] \in CloseTags
           /\ Cardinality({k \in a..j : html[k] \in OpenTags})
                 = Cardinality({k \in a..j : html[k] \in CloseTags})})

\* ---------------------------------------------------------------- Selector

\* part_000:251: one of the characters of the kana and kanji ranges
IsJapanese(tok) == tok \in {"a", "b", "W", "V"}

HasJapanese(text) == \E k \in 1..Len(text) : IsJapanese(text[k])

\* the text node that begins at html[i] in the wrapper of element e: the
\* text nodes of the inserted markup have the numbers below 0
InnerNode(e, i) == 0 - (i * (Len(InitialPage) + 1) + e)

IsInner(n) == n < 0

\* the element whose wrapper the inner node is in, and where it begins
InnerElem(n) == (0 - n) % (Len(InitialPage) + 1)
InnerStart(n) == (0 - n) \div (Len(InitialPage) + 1)

\* the places of the markup where a text node begins, in their order
RunStarts(html) ==
    LET starts(i) == /\ html[i] \notin TagTokens
                     /\ (i = 1 \/ html[i - 1] \in TagTokens)
    IN  SelectSeq([i \in 1..Len(html) |-> i], starts)

\* the text of the text node that begins at html[i]
RunText(html, i) ==
    LET ends == {j \in i..Len(html) : \A k \in i..j : html[k] \notin TagTokens}
    IN  SubSeq(html, i, CHOOSE j \in ends : \A k \in ends : k <= j)

\* node.textContent
TextOf(pg, n) ==
    IF IsInner(n) THEN RunText(pg.elems[InnerElem(n)].html, InnerStart(n))
    ELSE pg.nodeText[n]

\* the element of the page the text node is in: its parent, or the parent
\* of its wrapper; 0 for a node that is not in the document
Above(pg, n) == IF IsInner(n) THEN InnerElem(n) ELSE ParentOf(pg, n)

\* parent.closest('ruby') (part_000:230-232, 301); the elements of the page
\* are no ruby elements
InRuby(pg, n) ==
    /\ IsInner(n)
    /\ LET html == pg.elems[InnerElem(n)].html
           before == 1..InnerStart(n)
       IN  Cardinality({k \in before : html[k] \in OpenTags
                                         /\ TagOf(html[k]) = "RUBY"})
             > Cardinality({k \in before : html[k] = "</ruby>"})

\* parent.closest('[data-tsukeru-wrapper="1"]') (part_000:235)
InWrapper(pg, n) == IsInner(n)

\* a selector without the test of part_000:235
isProcessableTextNode_NoWrapperTest(pg, n) ==
    LET above == Above(pg, n)
    IN  /\ above # 0
        /\ n \notin pg.processedNodes
        /\ ~InRuby(pg, n)
        /\ ~(currentSite = "youtube" /\ above \in CaptionElems)
        /\ Trim(TextOf(pg, n)) # <<>>
        /\ HasJapanese(TextOf(pg, n))

\* part_000:223-255; the elements of the page are visible, not editable,
\* and no excluded tag
isProcessableTextNode(pg, n) ==
    LET above == Above(pg, n)
    IN  /\ above # 0
        /\ n \notin pg.processedNodes
        /\ ~InRuby(pg, n)
        /\ ~InWrapper(pg, n)
        /\ ~(currentSite = "youtube" /\ above \in CaptionElems)
        /\ Trim(TextOf(pg, n)) # <<>>
        /\ HasJapanese(TextOf(pg, n))

RECURSIVE TextNodesIn(_, _, _)
\* the text nodes below the elements of S from element e on, in document
\* order (the TreeWalker with SHOW_TEXT): the text node of the element, or
\* the text nodes of its wrapper
TextNodesIn(pg, S, e) ==
    IF e > Len(InitialPage) THEN <<>>
    ELSE (IF e \notin S THEN <<>>
          ELSE IF pg.elems[e].kind = "text" THEN <<pg.elems[e].node>>
          ELSE IF pg.elems[e].kind = "wrapper"
          THEN LET starts == RunStarts(pg.elems[e].html)
               IN  [k \in 1..Len(starts) |-> InnerNode(e, starts[k])]
          ELSE <<>>) \o TextNodesIn(pg, S, e + 1)

\* part_000:259-282, for the elements S as roots
collectTextNodes(pg, S) ==
    LET accept(n) == isProcessableTextNode(pg, n)
    IN  SelectSeq(TextNodesIn(pg, S, 1), accept)

\* part_000:291-320, for the caption container as root
collectCaptionTextNodes(pg) ==
    LET accept(n) ==
            /\ ~InRuby(pg, n)
            /\ ~pg.elems[Above(pg, n)].captionProcessed
            /\ Trim(TextOf(pg, n)) # <<>>
            /\ HasJapanese(TextOf(pg, n))
    IN  SelectSeq(TextNodesIn(pg, CaptionElems, 1), accept)

\* ----------------------------------------------------------------- Batcher

EmptyBatch == [nodes |-> <<>>, markers |-> <<>>, payload |-> <<>>]

RECURSIVE buildFrom_Above(_, _, _, _, _, _)
\* a loop that flushes only above the ceiling
buildFrom_Above(pg, nodes, i, batchIndex, current, charCount) ==
    IF i > Len(nodes)
    THEN IF current.nodes = <<>> THEN <<>> ELSE <<current>>
    ELSE LET node == nodes[i]
             text == TextOf(pg, node)
             marker == MarkerOf(batchIndex, Len(current.nodes))
             next == [nodes |-> Append(current.nodes, node),
                      markers |-> Append(current.markers, marker),
                      payload |-> current.payload \o marker \o text]
             count == charCount + StrLen(text)
         IN  IF count > MAX_BATCH_CHARS
             THEN <<next>> \o buildFrom_Above(pg, nodes, i + 1, batchIndex + 1,
                                              EmptyBatch, 0)
             ELSE buildFrom_Above(pg, nodes, i + 1, batchIndex, next, count)

RECURSIVE buildFrom_CutAtCeiling(_, _, _, _, _, _)
\* a loop that flushes what it has before a text that alone reaches the
\* ceiling, and gives that text a batch of its own
buildFrom_CutAtCeiling(pg, nodes, i, batchIndex, current, charCount) ==
    IF i > Len(nodes)
    THEN IF current.nodes = <<>> THEN <<>> ELSE <<current>>
    ELSE LET node == nodes[i]
             text == TextOf(pg, node)
             alone == StrLen(text) >= MAX_BATCH_CHARS /\ current.nodes # <<>>
             base == IF alone THEN EmptyBatch ELSE current
             index == IF alone THEN batchIndex + 1 ELSE batchIndex
             marker == MarkerOf(index, Len(base.nodes))
             next == [nodes |-> Append(base.nodes, node),
                      markers |-> Append(base.markers, marker),
                      payload |-> base.payload \o marker \o text]
             count == (IF alone THEN 0 ELSE charCount) + StrLen(text)
         IN  (IF alone THEN <<current>> ELSE <<>>)
               \o (IF count >= MAX_BATCH_CHARS
                    THEN <<next>> \o buildFrom_CutAtCeiling(pg, nodes, i + 1,
                                        index + 1, EmptyBatch, 0)
                    ELSE buildFrom_CutAtCeiling(pg, nodes, i + 1, index, next,
                                                count))

RECURSIVE buildFrom(_, _, _, _, _, _)
\* part_000:346-362: the loop from nodes[i] on, and the last flush
buildFrom(pg, nodes, i, batchIndex, current, charCount) ==
    IF i > Len(nodes)
    THEN IF current.nodes = <<>> THEN <<>> ELSE <<current>>
    ELSE LET node == nodes[i]
             text == TextOf(pg, node)
             marker == MarkerOf(batchIndex, Len(current.nodes))
             next == [nodes |-> Append(current.nodes, node),
                      markers |-> Append(current.markers, marker),
                      payload |-> current.payload \o marker \o text]
             count == charCount + StrLen(text)
         IN  IF count >= MAX_BATCH_CHARS
             THEN <<next>> \o buildFrom(pg, nodes, i + 1, batchIndex + 1,
                                        EmptyBatch, 0)
             ELSE buildFrom(pg, nodes, i + 1, batchIndex, next, count)

\* part_000:324-364
buildBatches(pg, nodes) == buildFrom(pg, nodes, 1, 0, EmptyBatch, 0)

\* ------------------------------------------------------------- Reassembler

\* the last token of the node that begins at html[a]
NodeEnd(html, a) == IF html[a] \in OpenTags THEN EndOf(html, a) ELSE a

\* node.textContent
textContent(html) ==
    LET isText(tok) == tok \notin TagTokens
    IN  SelectSeq(html, isText)

\* part_000:128
allowedTags == {"RUBY", "RT", "MARK", "SPAN"}

\* part_000:130-132; the names of the model that begin with data-
isAllowedAttribute(name) == name = "class" \/ name \in {"data-jlpt", "data-x"}

\* the turns of the loop of part_000:146 that are followed
MaxTurns == 2

NoOutput == [returns |-> TRUE, html |-> <<>>]
NoReturn == [returns |-> FALSE, html |-> <<>>]

RECURSIVE sanitizeNode(_, _)
RECURSIVE sanitizeChildren(_, _, _)
RECURSIVE whileFirstChild(_, _, _, _)

\* part_000:146-148: the loop over node.firstChild of the element at
\* html[a], frag is what it has appended.  sanitizeNode appends new nodes
\* to frag and takes nothing out of node, so node.firstChild is the same
\* node in every turn; returns is FALSE when the loop has not ended after
\* the turns that are followed.
whileFirstChild(html, a, frag, turns) ==
    IF a + 1 > EndOf(html, a) - 1 THEN [returns |-> TRUE, html |-> frag]
    ELSE IF turns = 0 THEN NoReturn
    ELSE LET first == sanitizeNode(html, a + 1)
         IN  IF ~first.returns THEN NoReturn
             ELSE whileFirstChild(html, a, frag \o first.html, turns - 1)

\* part_000:166-168: the children html[a..b] of an element, or of the
\* template, one after the other
sanitizeChildren(html, a, b) ==
    IF a > b THEN NoOutput
    ELSE LET first == sanitizeNode(html, a)
         IN  IF ~first.returns THEN NoReturn
             ELSE LET rest == sanitizeChildren(html, NodeEnd(html, a) + 1, b)
                  IN  IF ~rest.returns THEN NoReturn
                      ELSE [returns |-> TRUE, html |-> first.html \o rest.html]

\* part_000:134-171: what the call for the node at html[a] appends to its
\* parent, and whether it returns
sanitizeNode(html, a) ==
    LET tok == html[a]
        tag == TagOf(tok)
    IN  IF tok \in CloseTags THEN NoOutput
        ELSE IF tok \notin OpenTags THEN [returns |-> TRUE, html |-> <<tok>>]
        ELSE IF tag \notin allowedTags
        THEN whileFirstChild(html, a, <<>>, MaxTurns)
        ELSE IF tag = "SPAN" /\ "data-jlpt" \notin AttrsOf(tok)
        THEN [returns |-> TRUE,
              html |-> textContent(SubSeq(html, a, EndOf(html, a)))]
        ELSE LET inner == sanitizeChildren(html, a + 1, EndOf(html, a) - 1)
                 kept == {n \in AttrsOf(tok) : isAllowedAttribute(n)}
             IN  IF ~inner.returns THEN NoReturn
                 ELSE [returns |-> TRUE,
                       html |-> <<StartTag(tag, kept)>> \o inner.html
                                  \o <<EndTag(tag)>>]

\* part_000:121-180: the markup the call returns, and whether it returns
sanitizeHtmlFragment(html) ==
    IF html = <<>> THEN NoOutput ELSE sanitizeChildren(html, 1, Len(html))

replaceTextNodeWithHtml_AtOldPlace(pg, node, html, markCaption) ==
    LET parent == IF ParentOf(pg, node) # 0 THEN ParentOf(pg, node)
                  ELSE CHOOSE e \in Elems : TRUE
        originalText == pg.nodeText[node]
        safeHtml == sanitizeHtmlFragment(IF html # <<>> THEN html
                                         ELSE originalText).html
    IN  Observed([pg EXCEPT !.elems[parent] =
                    [kind |-> "wrapper", node |-> 0,
                     original |-> originalText, html |-> safeHtml,
                     processed |-> IF markCaption THEN @.processed ELSE TRUE,
                     captionProcessed |->
                        IF markCaption THEN TRUE ELSE @.captionProcessed]],
                 <<>>, parent \in CaptionElems)

\* part_000:393-422, and the observers' callbacks for the replaceChild; when
\* sanitizeHtmlFragment does not return, nothing after it runs
replaceTextNodeWithHtml(pg, node, html, markCaption) ==
    LET parent == ParentOf(pg, node)
        originalText == pg.nodeText[node]
        safe == sanitizeHtmlFragment(IF html # <<>> THEN html
                                     ELSE originalText)
        safeHtml == safe.html
    IN  IF parent = 0 THEN pg
        ELSE IF ~safe.returns THEN [pg EXCEPT !.hung = TRUE]
        ELSE Observed([pg EXCEPT !.elems[parent] =
                         [kind |-> "wrapper", node |-> 0,
                          original |-> originalText, html |-> safeHtml,
                          processed |-> IF markCaption THEN @.processed ELSE TRUE,
                          captionProcessed |->
                             IF markCaption THEN TRUE ELSE @.captionProcessed]],
                      <<>>, parent \in CaptionElems)

RECURSIVE splitFrom(_, _, _, _)
\* part_000:370-372: processedHTML.split(splitRegex).filter(Boolean), the
\* text from start on is not yet in a chunk, the search is at pos
splitFrom(html, markers, start, pos) ==
    IF pos >= Len(html)
    THEN IF start < Len(html) THEN <<Substring(html, start, Len(html))>>
         ELSE <<>>
    ELSE LET hits == {k \in 1..Len(markers) : Occurs(html, markers[k], pos)}
         IN  IF hits = {} THEN splitFrom(html, markers, start, pos + 1)
             ELSE LET m == markers[Min(hits)]
                  IN  (IF start < pos THEN <<Substring(html, start, pos)>>
                       ELSE <<>>)
                        \o <<m>>
                        \o splitFrom(html, markers, pos + Len(m), pos + Len(m))

\* part_000:374, 378-379: markerToIndex.get(chunk), -1 for no entry
MarkerIndex(markers, chunk) ==
    LET at == {k \in 1..Len(markers) : markers[k] = chunk}
    IN  IF at = {} THEN 0 - 1 ELSE (CHOOSE k \in at : \A j \in at : j <= k) - 1

RECURSIVE applyChunks(_, _, _, _, _, _)
\* part_000:377-390: the loop over the chunks
applyChunks(pg, batch, chunks, currentIndex, markProcessed, markCaption) ==
    IF chunks = <<>> THEN pg
    ELSE LET chunk == Head(chunks)
             index == MarkerIndex(batch.markers, chunk)
         IN  IF index # 0 - 1
             THEN applyChunks(pg, batch, Tail(chunks), index,
                              markProcessed, markCaption)
             ELSE IF currentIndex = 0 - 1
             THEN applyChunks(pg, batch, Tail(chunks), currentIndex,
                              markProcessed, markCaption)
             ELSE LET targetNode == batch.nodes[currentIndex + 1]
                      pg1 == replaceTextNodeWithHtml(pg, targetNode, chunk,
                                                     markCaption)
                      pg2 == IF markProcessed
                             THEN [pg1 EXCEPT !.processedNodes =
                                                 @ \cup {targetNode}]
                             ELSE pg1
                  IN  IF pg1.hung THEN pg1
                      ELSE applyChunks(pg2, batch, Tail(chunks), 0 - 1,
                                       markProcessed, markCaption)

\* an applyBatchResult that takes the text before the first marker for the
\* first node
applyBatchResult_FromFirstNode(pg, batch, processedHTML, markProcessed, markCaption) ==
    IF batch.markers = <<>> THEN pg
    ELSE applyChunks(pg, batch, splitFrom(processedHTML, batch.markers, 0, 0),
                     0, markProcessed, markCaption)

\* part_000:368-391
applyBatchResult(pg, batch, processedHTML, markProcessed, markCaption) ==
    IF batch.markers = <<>> THEN pg
    ELSE applyChunks(pg, batch, splitFrom(processedHTML, batch.markers, 0, 0),
                     0 - 1, markProcessed, markCaption)

\* ----------------------------------------------------- sessions and passes

\* part_000:629-649
startWatchingDynamicContent(pg) == [pg EXCEPT !.mutationObserver = TRUE]

\* part_000:651-659
stopWatchingDynamicContent(pg) ==
    [pg EXCEPT !.mutationObserver = FALSE, !.debounceTimer = NoTimer]

\* part_000:727-770
startIntersectionObserver(pg) == [pg EXCEPT !.intersectionObserver = TRUE]

\* part_000:772-781
stopIntersectionObserver(pg) == [pg EXCEPT !.intersectionObserver = FALSE]

\* part_000:719-725; the timeout of part_000:707 is not cleared
stopYoutubeCaptionsObserver(pg) == [pg EXCEPT !.youtubeCaptionObserver = FALSE]

\* the session passes that are not running
FreeSlots(pg) == {p \in 1..NPass : pg.passes[p].kind = "none"}

\* the settings the observers were started with (part_000:629, 661, 744):
\* those of the applyFurigana call that completed last
SessionSettings(pg) ==
    IF pg.lastAppliedSettings # <<>> THEN pg.lastAppliedSettings[1]
    ELSE PageSettings

\* a session pass up to its first sendMessage; full: no pass is left for it
StartPass(pg, kind, nodes, unique) ==
    IF FreeSlots(pg) = {} THEN [pg EXCEPT !.full = TRUE]
    ELSE [pg EXCEPT !.passes[Min(FreeSlots(pg))] =
            [kind |-> kind, batches |-> buildBatches(pg, nodes), i |-> 1,
             unique |-> unique, settings |-> SessionSettings(pg)]]

\* part_000:674-689: processCaptions up to its first sendMessage
processCaptions(pg) ==
    LET nodes == collectCaptionTextNodes(pg)
    IN  IF nodes = <<>> THEN pg ELSE StartPass(pg, "caption", nodes, <<>>)

\* part_000:661-717; the caption container is in the page
startYoutubeCaptionsObserver(pg) ==
    IF currentSite # "youtube" THEN pg
    ELSE processCaptions([stopYoutubeCaptionsObserver(pg)
                            EXCEPT !.youtubeCaptionObserver = TRUE])

RECURSIVE restoreFrom_FromTextContent(_, _)
\* a restoration from the text content of the wrapper
restoreFrom_FromTextContent(pg, e) ==
    IF e > Len(InitialPage) THEN pg
    ELSE IF pg.elems[e].kind # "wrapper"
    THEN restoreFrom_FromTextContent(pg, e + 1)
    ELSE IF NodeIds \ Live(pg) = {} THEN [pg EXCEPT !.full = TRUE]
    ELSE LET n == Min(NodeIds \ Live(pg))
         IN  restoreFrom_FromTextContent(
                 [pg EXCEPT !.elems[e] = TextChild(@, n),
                            !.nodeText[n] = textContent(pg.elems[e].html),
                            !.restored = @ + 1],
                 e + 1)

RECURSIVE restoreFrom(_, _)
\* content-main.js:156-163: every wrapper from element e on is replaced by a
\* new text node with the original text; full: no node id is left for it
restoreFrom(pg, e) ==
    IF e > Len(InitialPage) THEN pg
    ELSE IF pg.elems[e].kind # "wrapper" THEN restoreFrom(pg, e + 1)
    ELSE IF NodeIds \ Live(pg) = {} THEN [pg EXCEPT !.full = TRUE]
    ELSE LET n == Min(NodeIds \ Live(pg))
         IN  restoreFrom([pg EXCEPT !.elems[e] = TextChild(@, n),
                                    !.nodeText[n] = pg.elems[e].original,
                                    !.restored = @ + 1],
                         e + 1)

\* content-main.js:155-185
hardClearFurigana(pg) ==
    LET pg1 == restoreFrom(pg, 1)
        pg2 == [pg1 EXCEPT
                  !.elems = [e \in Elems |->
                               [pg1.elems[e] EXCEPT !.processed = FALSE,
                                                    !.captionProcessed = FALSE]],
                  !.softHidden = FALSE,
                  !.isFuriganaActive = FALSE,
                  !.lastAppliedSettings = <<>>,
                  !.processedNodes = {},
                  !.processingQueue = {}]
    IN  stopYoutubeCaptionsObserver(
          stopIntersectionObserver(stopWatchingDynamicContent(pg2)))

\* content-main.js:143-152
clearFurigana(pg) ==
    stopYoutubeCaptionsObserver(
      stopIntersectionObserver(
        stopWatchingDynamicContent(
          [pg EXCEPT !.softHidden = TRUE, !.isFuriganaActive = FALSE])))

\* content-main.js:43-101: applyFurigana up to its first sendMessage
\* an applyFurigana that shows a hidden page whatever the settings are
applyFurigana_AlwaysReveals(pg, settings) ==
    IF pg.isProcessing THEN pg
    ELSE
      LET hasRubyDom == pg.softHidden /\ Wrappers(pg) # {}
      IN  IF hasRubyDom /\ pg.lastAppliedSettings # <<>>
          THEN [pg EXCEPT !.softHidden = FALSE, !.isFuriganaActive = TRUE]
          ELSE
            LET pg1 == IF pg.isFuriganaActive \/ pg.softHidden
                       THEN hardClearFurigana(pg) ELSE pg
                textNodes == collectTextNodes(pg1, Elems)
            IN  IF textNodes = <<>> THEN [pg1 EXCEPT !.alerts = @ + 1]
                ELSE [pg1 EXCEPT
                        !.isProcessing = TRUE,
                        !.passes[0] =
                           [kind |-> "initial",
                            batches |-> buildBatches(pg1, textNodes),
                            i |-> 1, unique |-> <<>>,
                            settings |-> settings]]

\* an applyFurigana without the test of isProcessing
applyFurigana_NoMutex(pg, settings) ==
      LET hasRubyDom == pg.softHidden /\ Wrappers(pg) # {}
          needsReprocess ==
              \/ settings.furiganaType # pg.lastAppliedSettings[1].furiganaType
              \/ settings.firstOccurrenceOnly
                    # pg.lastAppliedSettings[1].firstOccurrenceOnly
      IN  IF hasRubyDom /\ pg.lastAppliedSettings # <<>> /\ ~needsReprocess
          THEN [pg EXCEPT !.softHidden = FALSE, !.isFuriganaActive = TRUE]
          ELSE
            LET pg1 == IF pg.isFuriganaActive \/ pg.softHidden
                       THEN hardClearFurigana(pg) ELSE pg
                textNodes == collectTextNodes(pg1, Elems)
            IN  IF textNodes = <<>> THEN [pg1 EXCEPT !.alerts = @ + 1]
                ELSE [pg1 EXCEPT
                        !.isProcessing = TRUE,
                        !.passes[0] =
                           [kind |-> "initial",
                            batches |-> buildBatches(pg1, textNodes),
                            i |-> 1, unique |-> <<>>,
                            settings |-> settings]]

applyFurigana(pg, settings) ==
    IF pg.isProcessing THEN pg
    ELSE
      LET hasRubyDom == pg.softHidden /\ Wrappers(pg) # {}
          needsReprocess ==
              \/ settings.furiganaType # pg.lastAppliedSettings[1].furiganaType
              \/ settings.firstOccurrenceOnly
                    # pg.lastAppliedSettings[1].firstOccurrenceOnly
      IN  IF hasRubyDom /\ pg.lastAppliedSettings # <<>> /\ ~needsReprocess
          THEN [pg EXCEPT !.softHidden = FALSE, !.isFuriganaActive = TRUE]
          ELSE
            LET pg1 == IF pg.isFuriganaActive \/ pg.softHidden
                       THEN hardClearFurigana(pg) ELSE pg
                textNodes == collectTextNodes(pg1, Elems)
            IN  IF textNodes = <<>> THEN [pg1 EXCEPT !.alerts = @ + 1]
                ELSE [pg1 EXCEPT
                        !.isProcessing = TRUE,
                        !.passes[0] =
                           [kind |-> "initial",
                            batches |-> buildBatches(pg1, textNodes),
                            i |-> 1, unique |-> <<>>,
                            settings |-> settings]]

\* content-main.js:103-138: applyFurigana from the response to its batch on,
\* to the next sendMessage or to its end
applyFuriganaResume(pg, settings, ok, processedHTML) ==
    LET pass == pg.passes[0]
        batch == pass.batches[pass.i]
        pg1 == applyBatchResult(pg, batch, processedHTML, TRUE, FALSE)
        pg2 == [pg1 EXCEPT !.isFuriganaActive = TRUE,
                           !.lastAppliedSettings = <<settings>>,
                           !.passes[0] = IdlePass,
                           !.isProcessing = FALSE]
        pg3 == IF settings.watchDynamic
               THEN startIntersectionObserver(startWatchingDynamicContent(pg2))
               ELSE pg2
    IN  IF ~ok
        THEN [pg EXCEPT !.passes[0] = IdlePass, !.isProcessing = FALSE,
                        !.alerts = @ + 1]
        ELSE IF pg1.hung THEN pg1
        ELSE IF pass.i < Len(pass.batches)
        THEN [pg1 EXCEPT !.passes[0].i = pass.i + 1]
        ELSE IF currentSite = "youtube" THEN startYoutubeCaptionsObserver(pg3)
        ELSE pg3

sessionResume_StopsAtFailure(pg, p, ok, processedHTML) ==
    LET pass == pg.passes[p]
        batch == pass.batches[pass.i]
        markCaption == pass.kind = "caption"
        pg1 == IF ok
               THEN applyBatchResult(pg, batch, processedHTML,
                                     ~markCaption, markCaption)
               ELSE pg
    IN  IF ok /\ pass.i < Len(pass.batches)
        THEN [pg1 EXCEPT !.passes[p].i = pass.i + 1]
        ELSE [pg1 EXCEPT !.passes[p] = IdlePass,
                         !.processingQueue = @ \ SeqToSet(pass.unique)]

\* part_000:691-698, 808-815, 890-904: a session pass from the response to
\* its batch on, to the next sendMessage or to its end
\* a session pass that leaves its nodes in processingQueue when it ends
sessionResume_KeepsQueue(pg, p, ok, processedHTML) ==
    LET pass == pg.passes[p]
        batch == pass.batches[pass.i]
        markCaption == pass.kind = "caption"
        pg1 == IF ok
               THEN applyBatchResult(pg, batch, processedHTML,
                                     ~markCaption, markCaption)
               ELSE pg
    IN  IF pass.i < Len(pass.batches)
        THEN [pg1 EXCEPT !.passes[p].i = pass.i + 1]
        ELSE [pg1 EXCEPT !.passes[p] = IdlePass]

\* a session pass that tells the user of a failed response
sessionResume_AlertsUser(pg, p, ok, processedHTML) ==
    LET pass == pg.passes[p]
        batch == pass.batches[pass.i]
        markCaption == pass.kind = "caption"
        pg1 == IF ok
               THEN applyBatchResult(pg, batch, processedHTML,
                                     ~markCaption, markCaption)
               ELSE [pg EXCEPT !.alerts = @ + 1]
    IN  IF pass.i < Len(pass.batches)
        THEN [pg1 EXCEPT !.passes[p].i = pass.i + 1]
        ELSE [pg1 EXCEPT !.passes[p] = IdlePass,
                         !.processingQueue = @ \ SeqToSet(pass.unique)]

sessionResume(pg, p, ok, processedHTML) ==
    LET pass == pg.passes[p]
        batch == pass.batches[pass.i]
        markCaption == pass.kind = "caption"
        pg1 == IF ok
               THEN applyBatchResult(pg, batch, processedHTML,
                                     ~markCaption, markCaption)
               ELSE pg
    IN  IF pg1.hung THEN pg1
        ELSE IF pass.i < Len(pass.batches)
        THEN [pg1 EXCEPT !.passes[p].i = pass.i + 1]
        ELSE [pg1 EXCEPT !.passes[p] = IdlePass,
                         !.processingQueue = @ \ SeqToSet(pass.unique)]

RECURSIVE mutationNodes(_, _)
\* part_000:825-864: the text nodes of the records that can be processed
mutationNodes(pg, records) ==
    IF records = <<>> THEN <<>>
    ELSE (IF isProcessableTextNode(pg, Head(records).node)
          THEN <<Head(records).node>> ELSE <<>>)
            \o mutationNodes(pg, Tail(records))

RECURSIVE uniqueFrom(_, _)
\* part_000:869-873: the filter, with the queue as it grows
uniqueFrom(nodes, queue) ==
    IF nodes = <<>> THEN <<>>
    ELSE IF Head(nodes) \in queue THEN uniqueFrom(Tail(nodes), queue)
    ELSE <<Head(nodes)>> \o uniqueFrom(Tail(nodes), queue \cup {Head(nodes)})

\* part_000:821-888: processMutations up to its first sendMessage
processMutations(pg, records) ==
    LET newNodes == mutationNodes(pg, records)
        uniqueNodes == uniqueFrom(newNodes, pg.processingQueue)
    IN  IF newNodes = <<>> \/ uniqueNodes = <<>> THEN pg
        ELSE StartPass([pg EXCEPT !.processingQueue =
                                     @ \cup SeqToSet(uniqueNodes)],
                       "mutation", uniqueNodes, uniqueNodes)

\* part_000:783-806: processVisibleElements up to its first sendMessage
processVisibleElements(pg, elements) ==
    LET newNodes ==
            collectTextNodes(pg, {e \in elements : ~pg.elems[e].processed})
    IN  IF newNodes = <<>> THEN pg
        ELSE StartPass(pg, "viewport", newNodes, <<>>)

\* -------------------------------------------------------------- the history

NoResponse ==
    [kind |-> "none", slot |-> 0, ok |-> FALSE, index |-> 0, count |-> 0,
     running |-> FALSE, next |-> 0, nodes |-> {}, omitted |-> {},
     detached |-> {}, changed |-> {}, present |-> {}, replaced |-> {},
     stray |-> {}, domSame |-> TRUE, alerted |-> 0, calls |-> 0,
     fetched |-> 0, result |-> <<>>, markers |-> <<>>, at |-> <<>>]

\* what the response to the batch of pass p did: pg before it, pg1 after it,
\* me the handleFuriganaRequest call that made it
ResponseRecord(pg, pg1, p, me, ok) ==
    LET pass == pg.passes[p]
        batch == pass.batches[pass.i]
        at == 1..Len(batch.nodes)
        sent == dismantlePayload(batch.payload)
        back == dismantlePayload(me.result)
        out == dismantlePayload(me.output)
        attached == {k \in at : ParentOf(pg, batch.nodes[k]) # 0}
    IN  [kind |-> pass.kind, slot |-> p, ok |-> ok,
         index |-> pass.i, count |-> Len(pass.batches),
         running |-> pg1.passes[p].kind # "none",
         next |-> pg1.passes[p].i,
         nodes |-> SeqToSet(batch.nodes),
         \* the remote call was made and its answer had no marker for the node
         omitted |-> {batch.nodes[k] : k \in
                        {j \in at : /\ ok
                                    /\ \E m \in 1..Len(me.missing) : me.missing[m] = j
                                    /\ \A c \in 1..Len(back) :
                                          back[c].marker # batch.markers[j]}},
         \* the node had no parent when the response came
         detached |-> {batch.nodes[k] : k \in at \ attached},
         \* the node had another text than the payload when the response came
         changed |-> {batch.nodes[k] : k \in
                        {j \in attached :
                            pg.nodeText[batch.nodes[j]] # sent[j].text}},
         \* the response has the marker of the node and a text after it
         present |-> {batch.nodes[k] : k \in
                        {j \in at : /\ ok
                                    /\ \E c \in 1..Len(out) :
                                          /\ out[c].marker = batch.markers[j]
                                          /\ out[c].text # <<>>}},
         \* the node was the child of an element before and is not after
         replaced |-> {batch.nodes[k] : k \in
                         {j \in attached : ParentOf(pg1, batch.nodes[j]) = 0}},
         \* the elements that changed and did not hold a node of the batch
         stray |-> {e \in Elems :
                      /\ pg1.elems[e] # pg.elems[e]
                      /\ ~(/\ pg.elems[e].kind = "text"
                           /\ pg.elems[e].node \in SeqToSet(batch.nodes))},
         domSame |-> pg1.elems = pg.elems /\ pg1.nodeText = pg.nodeText,
         \* the alert() dialogs the resumed call has shown
         alerted |-> pg1.alerts - pg.alerts,
         \* the fetches of the call, the fragments it fetched for, and the
         \* answer of the service
         calls |-> me.calls,
         fetched |-> Len(me.missing),
         result |-> me.result,
         \* the markers of the batch and the elements its nodes were in
         markers |-> batch.markers,
         at |-> [k \in at |-> ParentOf(pg, batch.nodes[k])]]

\* ------------------------------------------------------------- the actions

\* the variables after a handler: pg as far as it can still be reached
Commit(pg, response) ==
    \E g \in {Reachable(pg)} :
        /\ ~hung
        /\ ~g.full
        /\ hung' = g.hung
        /\ elems' = g.elems
        /\ nodeText' = g.nodeText
        /\ processedNodes' = g.processedNodes
        /\ processingQueue' = g.processingQueue
        /\ isProcessing' = g.isProcessing
        /\ isFuriganaActive' = g.isFuriganaActive
        /\ lastAppliedSettings' = g.lastAppliedSettings
        /\ softHidden' = g.softHidden
        /\ mutationObserver' = g.mutationObserver
        /\ intersectionObserver' = g.intersectionObserver
        /\ youtubeCaptionObserver' = g.youtubeCaptionObserver
        /\ debounceTimer' = g.debounceTimer
        /\ captionTimer' = g.captionTimer
        /\ passes' = g.passes
        /\ alerts' = g.alerts
        /\ restored' = g.restored
        /\ lastResponse' = response

workerVars == <<now, ticks, rateLimitBuckets, rlog, cache, disp>>

\* content-main.js:215-219: the applyFurigana message with the settings of
\* the popup, the max-th message at most
ApplyMessage(settings, max) ==
    /\ commands < max
    /\ Commit(applyFurigana(PageState, settings), NoResponse)
    /\ commands' = commands + 1
    /\ cleared' = FALSE
    /\ asked' = <<settings>>
    /\ UNCHANGED <<workerVars, batchVars, edits>>

UserApply == ApplyMessage(PageSettings, MaxCommands)

\* content-main.js:222-225: the clearFurigana message
ClearMessage(max) ==
    /\ commands < max
    /\ Commit(clearFurigana(PageState), NoResponse)
    /\ commands' = commands + 1
    /\ cleared' = TRUE
    /\ UNCHANGED <<workerVars, batchVars, edits, asked>>

UserClear == ClearMessage(MaxCommands)

\* the service worker answers the sendMessage of pass p (background.js:39-48
\* with utils.js:114-178) and the pass goes on with the response
Receive(p, how1, how2) ==
    /\ passes[p].kind # "none"
    /\ \E r \in {handleFuriganaRequest(
                     passes[p].batches[passes[p].i].payload,
                     passes[p].settings,
                     cache, rateLimitBuckets, now, how1, how2)} :
         \E ok \in {r.me.pc = "done" /\ r.me.output # <<>>} :
           \E pg1 \in {IF p = 0
                        THEN applyFuriganaResume(PageState,
                                                 passes[0].settings, ok,
                                                 r.me.output)
                        ELSE sessionResume(PageState, p, ok, r.me.output)} :
             \E response \in {ResponseRecord(PageState, pg1, p, r.me, ok)} :
                /\ cache' = r.store
                /\ rateLimitBuckets' = r.buckets
                /\ Commit(pg1, response)
    /\ UNCHANGED <<now, ticks, rlog, disp, batchVars, edits, commands, cleared, asked>>

\* part_000:698-701, 815-818, 897-904: the sendMessage of a session pass
\* rejects; the catch logs, and the finally of processMutations takes the
\* nodes of the pass out of processingQueue
sessionThrow(pg, p) ==
    [pg EXCEPT !.passes[p] = IdlePass,
               !.processingQueue = @ \ SeqToSet(pg.passes[p].unique)]

\* chrome.runtime.sendMessage rejects for the batch pass p waits for (the
\* service worker cannot be reached): the await throws
SendRejects(p) ==
    /\ passes[p].kind # "none"
    /\ Commit(IF p = 0
              THEN applyFuriganaResume(PageState, passes[0].settings, FALSE,
                                       <<>>)
              ELSE sessionThrow(PageState, p),
              NoResponse)
    /\ UNCHANGED <<workerVars, batchVars, edits, commands, cleared, asked>>

\* part_000:638-640: the debounce timeout
DebounceFire ==
    /\ debounceTimer.armed
    /\ Commit(processMutations([PageState EXCEPT !.debounceTimer = NoTimer],
                               debounceTimer.records),
              NoResponse)
    /\ UNCHANGED <<workerVars, batchVars, edits, commands, cleared, asked>>

\* part_000:733-741: the callback of the IntersectionObserver for the
\* elements that have come into view
Intersect(visibleElements) ==
    /\ intersectionObserver
    /\ Commit(processVisibleElements(PageState, visibleElements), NoResponse)
    /\ UNCHANGED <<workerVars, batchVars, edits, commands, cleared, asked>>

\* part_000:707: the caption timeout
CaptionFire ==
    /\ captionTimer
    /\ Commit(processCaptions([PageState EXCEPT !.captionTimer = FALSE]),
              NoResponse)
    /\ UNCHANGED <<workerVars, batchVars, edits, commands, cleared, asked>>

\* the page sets the data of the text node of element e
PageSetText(e, text) ==
    /\ edits < MaxEdits
    /\ elems[e].kind = "text"
    /\ nodeText[elems[e].node] # text
    /\ Commit(Observed([PageState EXCEPT !.nodeText[elems[e].node] = text],
                       <<[type |-> "characterData", node |-> elems[e].node]>>,
                       e \in CaptionElems),
              NoResponse)
    /\ edits' = edits + 1
    /\ UNCHANGED <<workerVars, batchVars, commands, cleared, asked>>

\* the page removes the text node of element e
PageRemoveNode(e) ==
    /\ edits < MaxEdits
    /\ elems[e].kind = "text"
    /\ Commit(Observed([PageState EXCEPT !.elems[e].kind = "none",
                                         !.elems[e].node = 0],
                       <<>>, e \in CaptionElems),
              NoResponse)
    /\ edits' = edits + 1
    /\ UNCHANGED <<workerVars, batchVars, commands, cleared, asked>>

\* the texts the page writes into its elements later: the second comment
\* gets a longer text
RenderedPage == <<<<"a">>, <<"W", "b">>, <<"a">>, <<"a">>>>

RECURSIVE renderFrom(_, _, _)
\* the elements of S from e on get a new text node with their new text
renderFrom(pg, S, e) ==
    IF e > Len(InitialPage) THEN pg
    ELSE IF e \notin S THEN renderFrom(pg, S, e + 1)
    ELSE IF NodeIds \ Live(pg) = {} THEN [pg EXCEPT !.full = TRUE]
    ELSE LET n == Min(NodeIds \ Live(pg))
         IN  renderFrom([pg EXCEPT !.elems[e] = TextChild(@, n),
                                   !.nodeText[n] = RenderedPage[e]],
                        S, e + 1)

\* the page writes the content of the elements of S anew, in one task; the
\* max-th change of the page at most
Render(S, max) ==
    /\ edits < max
    /\ LET pg == renderFrom(PageState, S, 1)
           added == TextNodesIn(pg, S, 1)
       IN  Commit(Observed(pg, [k \in 1..Len(added) |->
                                  [type |-> "childList", node |-> added[k]]],
                           S \cap CaptionElems # {}),
                  NoResponse)
    /\ edits' = edits + 1
    /\ UNCHANGED <<workerVars, batchVars, commands, cleared, asked>>

PageRender(S) == Render(S, MaxEdits)

\* ---------------------------------------------------------- the page as a whole

\* what the two endpoints do with a request: both answer with every marker,
\* both leave out the first marker, both fail
Replies == {<<"keep", "keep">>, <<"dropFirst", "dropFirst">>,
            <<"response", "response">>}

\* the texts the page sets
EditTexts == {<<"b">>}

\* the elements that come into view together
ViewSets == {{1}, {2, 3}}

\* the elements the page writes anew together
RenderSets == {{1}, {2}, {2, 3}, {4}}

\* the page when the content script has been injected, with the text
\* texts[e] in element e
InitPageWith(texts) ==
    /\ elems = [e \in Elems |->
                  [kind |-> "text", node |-> e, original |-> <<>>,
                   html |-> <<>>, processed |-> FALSE,
                   captionProcessed |-> FALSE]]
    /\ nodeText = [n \in NodeIds |->
                     IF n \in Elems THEN texts[n] ELSE <<>>]
    /\ processedNodes = {}
    /\ processingQueue = {}
    /\ isProcessing = FALSE
    /\ isFuriganaActive = FALSE
    /\ lastAppliedSettings = <<>>
    /\ softHidden = FALSE
    /\ mutationObserver = FALSE
    /\ intersectionObserver = FALSE
    /\ youtubeCaptionObserver = FALSE
    /\ debounceTimer = NoTimer
    /\ captionTimer = FALSE
    /\ passes = [p \in PassIds |-> IdlePass]
    /\ lastResponse = NoResponse
    /\ edits = 0
    /\ commands = 0
    /\ cleared = FALSE
    /\ asked = <<>>
    /\ hung = FALSE
    /\ alerts = 0
    /\ restored = 0

InitPage == InitPageWith([e \in Elems |-> InitialPage[e].text])

\* buildBatches has not been called on its own
NotBuilt == [done |-> FALSE, batches |-> <<>>, parsed |-> <<>>, chunks |-> <<>>]

\* sanitizeHtmlFragment has not been called on its own
NotSanitized == [called |-> FALSE, input |-> <<>>, out |-> NoOutput]

NotReassembled == [called |-> FALSE, processedHTML |-> <<>>]

InitNoBatch ==
    /\ fragments = <<>>
    /\ built = NotBuilt
    /\ sanitized = NotSanitized
    /\ reassembled = NotReassembled

InitWorker ==
    /\ now = 0
    /\ ticks = 0
    /\ rateLimitBuckets = <<>>
    /\ rlog = <<>>
    /\ cache = <<>>
    /\ disp = [d \in DispIds |-> IdleDisp]

Init == InitWorker /\ InitPage /\ InitNoBatch

Next ==
    \/ UserApply
    \/ UserClear
    \/ \E p \in PassIds, hows \in Replies : Receive(p, hows[1], hows[2])
    \/ \E p \in PassIds : SendRejects(p)
    \/ DebounceFire
    \/ \E S \in ViewSets : Intersect(S)
    \/ CaptionFire
    \/ \E e \in Elems, text \in EditTexts : PageSetText(e, text)
    \/ \E e \in Elems : PageRemoveNode(e)
    \/ \E S \in RenderSets : PageRender(S)

Spec == Init /\ [][Next]_vars

\* ------------------------------------------- the messages of the popup alone

\* how many messages the popup sends: a page is annotated, hidden and
\* annotated again
MaxSoftCommands == 3

\* the settings of the popup: the readings in hiragana or in katakana
ApplySettings ==
    {PageSettings, [PageSettings EXCEPT !.furiganaType = "katakana"]}

NextSoftHide ==
    \/ \E settings \in ApplySettings : ApplyMessage(settings, MaxSoftCommands)
    \/ ClearMessage(MaxSoftCommands)
    \/ \E hows \in Replies : Receive(0, hows[1], hows[2])

SpecSoftHide == Init /\ [][NextSoftHide]_vars

\* ------------------------------------------ a page that changes in a burst

\* how many times the page writes content while the extension is active
MaxBurstEdits == 2

NextBurst ==
    \/ ApplyMessage(PageSettings, 1)
    \/ \E p \in PassIds, hows \in Replies : Receive(p, hows[1], hows[2])
    \/ \E S \in RenderSets : Render(S, MaxBurstEdits)
    \/ DebounceFire

SpecBurst == Init /\ [][NextBurst]_vars

\* ------------------------- the page with a service that answers any markup

\* what the two endpoints do with a request: as in Replies, or both wrap the
\* annotation of every fragment in an element that is not in allowedTags
MarkupReplies == Replies \cup {<<"bold", "bold">>}

\* the sendMessage of pass p gets its response
Respond(p) == \E hows \in MarkupReplies : Receive(p, hows[1], hows[2])

NextMarkup ==
    \/ UserApply
    \/ UserClear
    \/ \E p \in PassIds : Respond(p)
    \/ DebounceFire
    \/ CaptionFire
    \/ \E S \in RenderSets : PageRender(S)

SpecMarkup == Init /\ [][NextMarkup]_vars

\* ----------------------------------------------- the service worker on its own

\* the fragment texts of the requests: a blank fragment and a fragment with
\* white space before it; the same text and a long fragment
FragmentLists ==
    {<<<<" ">>, <<" ", "a">>>>, <<<<"a">>, <<"V">>>>}

RECURSIVE PayloadOf(_, _)
\* the payload buildBatches makes of the texts (part_000:349-352), batch 0
PayloadOf(texts, index) ==
    IF texts = <<>> THEN <<>>
    ELSE MarkerOf(0, index) \o Head(texts) \o PayloadOf(Tail(texts), index + 1)

\* the payloads of the requests, and one payload without a marker
Payloads == {PayloadOf(ts, 0) : ts \in FragmentLists} \cup {<<"a">>}

SettingsSet == {DEFAULT_SETTINGS}

InitDispatch == InitWorker /\ InitPage /\ InitNoBatch

NextDispatch ==
    \/ \E d \in DispIds, p \in Payloads, s \in SettingsSet : Start(d, p, s)
    \/ \E d \in DispIds : Lookup(d, "ok")
    \/ \E d \in DispIds : FetchReply(d)
    \/ \E d \in DispIds : Store(d, "ok")

SpecDispatch == InitDispatch /\ [][NextDispatch]_vars

\* ------------------------- the service worker with a failing store and a clock

MaxStoreTicks == 1

\* a millisecond, and the time after which an entry is stale
StoreSteps == {1, IDB_CACHE_TTL}

\* time passes between two steps of the service worker
ClockTick(d) ==
    /\ ticks < MaxStoreTicks
    /\ now' = now + d
    /\ ticks' = ticks + 1
    /\ UNCHANGED <<rateVars, bgVars, pageVars, batchVars>>

\* the request of a batch with two text nodes
StorePayloads == {PayloadOf(<<<<"a">>, <<"b">>>>, 0)}

NextStore ==
    \/ \E d \in DispIds, p \in StorePayloads, s \in SettingsSet : Start(d, p, s)
    \/ \E d \in DispIds, h \in StoreOutcomes : Lookup(d, h)
    \/ \E d \in DispIds : FetchReply(d)
    \/ \E d \in DispIds, h \in StoreOutcomes : Store(d, h)
    \/ \E d \in StoreSteps : ClockTick(d)

SpecStore == InitDispatch /\ [][NextStore]_vars

\* ------------------------------ the service worker with the options of the popup

\* the options of the requests: the defaults; other display options; no
\* furigana type; another furigana type; first occurrences only
OptionSets ==
    {DEFAULT_SETTINGS,
     [DEFAULT_SETTINGS EXCEPT !.jlptLevel = 3, !.highlightMode = "verbs"],
     [DEFAULT_SETTINGS EXCEPT !.furiganaType = ""],
     [DEFAULT_SETTINGS EXCEPT !.furiganaType = "katakana"],
     [DEFAULT_SETTINGS EXCEPT !.firstOccurrenceOnly = TRUE]}

\* the request of a batch with one text node, white space before the text
OptionPayloads == {PayloadOf(<<<<" ", "a">>>>, 0)}

NextOptions ==
    \/ \E d \in DispIds, p \in OptionPayloads, s \in OptionSets : Start(d, p, s)
    \/ \E d \in DispIds : Lookup(d, "ok")
    \/ \E d \in DispIds : FetchReply(d)
    \/ \E d \in DispIds : Store(d, "ok")

SpecOptions == InitDispatch /\ [][NextOptions]_vars

\* ------------------------------------------------- the batcher on its own

MaxFragments == 3
ManyFragments == 11

\* a text that ends with the first fifteen characters of the marker prefix
JunctionText ==
    <<"a", "_", "_", "T", "S", "U", "K", "E", "R", "U", "_",
      "S", "P", "L", "I", "T">>

\* the texts of the text nodes: short ones, one with an underscore, one as
\* long as the ceiling, one longer, one longer than the ceiling of the rate
\* limiter
BatchTexts ==
    {<<"a">>, <<"_", "a">>, <<"W">>, <<"W", "b">>, JunctionText,
     <<"V", "W", "a">>}

\* the lists of text nodes buildBatches is called with: up to MaxFragments
\* nodes with any of the texts, and ManyFragments nodes with the same text
FragmentInputs ==
    UNION {[1..n -> BatchTexts] : n \in 1..MaxFragments}
      \cup {[k \in 1..ManyFragments |-> t] : t \in {<<"a">>, <<"W">>}}

InitBatch ==
    /\ InitWorker
    /\ InitPage
    /\ fragments \in FragmentInputs
    /\ built = NotBuilt
    /\ sanitized = NotSanitized
    /\ reassembled = NotReassembled

\* part_000:324-364, utils.js:89-112, part_000:370-372: the batches of the
\* text nodes, and what the service worker and applyBatchResult split each
\* payload into
Build ==
    /\ ~built.done
    /\ \E bs \in {buildBatches([nodeText |-> fragments],
                                [k \in 1..Len(fragments) |-> k])} :
          built' = [done |-> TRUE, batches |-> bs,
                    parsed |-> [b \in 1..Len(bs) |->
                                  dismantlePayload(bs[b].payload)],
                    chunks |-> [b \in 1..Len(bs) |->
                                  splitFrom(bs[b].payload, bs[b].markers, 0, 0)]]
    /\ UNCHANGED <<fragments, sanitized, reassembled, workerVars, pageVars>>

NextBatch == Build

SpecBatch == InitBatch /\ [][NextBatch]_vars

\* ------------------------------------------------ the sanitizer on its own

\* the element the start tag opens, with the content
Wrap(open, inner) == <<open>> \o inner \o <<EndTag(TagOf(open))>>

\* the content of the outer element: nothing, a text, an element with a text
SanInners == {<<>>, <<"a">>} \cup {Wrap(o, <<"a">>) : o \in OpenTags}

\* the markup sanitizeHtmlFragment is called with: an element of any tag of
\* the model, a text after it or none; a script element holds text only
SanInputs ==
    {Wrap(o, inner) \o tail :
        o \in OpenTags,
        inner \in SanInners,
        tail \in {<<>>, <<"b">>}}
      \ {Wrap("<script>", Wrap(o, <<"a">>)) \o tail :
            o \in OpenTags, tail \in {<<>>, <<"b">>}}

InitSanitize ==
    /\ InitWorker
    /\ InitPage
    /\ fragments = <<>>
    /\ built = NotBuilt
    /\ sanitized \in {[NotSanitized EXCEPT !.input = html] : html \in SanInputs}
    /\ reassembled = NotReassembled

\* part_000:121-180: the call
Sanitize ==
    /\ ~sanitized.called
    /\ sanitized' = [sanitized EXCEPT !.called = TRUE,
                                      !.out = sanitizeHtmlFragment(sanitized.input)]
    /\ UNCHANGED <<fragments, built, reassembled, workerVars, pageVars>>

NextSanitize == Sanitize

SpecSanitize == InitSanitize /\ [][NextSanitize]_vars

\* ---------------------------------- one applyFurigana on a page of any texts

\* a text without Japanese characters, which no selector takes
LatinText == <<"x">>

\* the texts of the elements: Latin, kanji, kana after a blank, and a text
\* that begins like a marker
PipeTexts == {LatinText, <<"a">>, <<" ", "b">>, SplitPrefix \o <<"a">>}

InitPipeline ==
    /\ InitWorker
    /\ InitNoBatch
    /\ \E texts \in [CommentElems -> PipeTexts] :
          InitPageWith([e \in Elems |->
                          IF e \in CommentElems THEN texts[e] ELSE LatinText])

\* the popup's message, and the responses to the batches with every answer
\* of the two endpoints
NextPipeline ==
    \/ UserApply
    \/ \E how1 \in Behaviours, how2 \in Behaviours : Receive(0, how1, how2)

SpecPipeline == InitPipeline /\ [][NextPipeline]_vars

\* ---------------------------------------------- applyBatchResult on its own

\* the text nodes of the batch of the call: those of two comments
ReassembleNodes == <<1, 3>>

\* the one batch buildBatches makes of them
ReassembleBatch(pg) == buildBatches(pg, ReassembleNodes)[1]

MaxPieces == 5

\* what a processedHTML is put together from: the markers of the batch, in
\* any number and order, and text
Pieces ==
    {MarkerOf(0, 0), MarkerOf(0, 1), <<"a">>, <<"b">>}

ProcessedHtmls ==
    {Concat(ps) : ps \in UNION {[1..n -> Pieces] : n \in 0..MaxPieces}}

InitReassemble ==
    /\ InitWorker
    /\ InitPage
    /\ fragments = <<>>
    /\ built = NotBuilt
    /\ sanitized = NotSanitized
    /\ reassembled \in {[NotReassembled EXCEPT !.processedHTML = html] :
                           html \in ProcessedHtmls}

\* part_000:368-391: the call, with the batch of the two text nodes
Reassemble ==
    /\ ~reassembled.called
    /\ Commit(applyBatchResult(PageState, ReassembleBatch(PageState),
                               reassembled.processedHTML, TRUE, FALSE),
              NoResponse)
    /\ reassembled' = [reassembled EXCEPT !.called = TRUE]
    /\ UNCHANGED <<fragments, built, sanitized, workerVars, edits, commands,
                   cleared, asked>>

NextReassemble == Reassemble

SpecReassemble == InitReassemble /\ [][NextReassemble]_vars

\* ------------------------------------------- the rate limiter on its own

\* the lengths the callers ask for: a no-marker payload, a sum of miss texts
RateLens == {1, 20000, 30000}
\* the time between two calls
RateSteps == {1, RATE_LIMIT_WINDOW_MS}

InitRate == InitWorker /\ InitPage /\ InitNoBatch

\* one call of checkCharRateLimit (synchronous: no await inside it)
RateCall(n) ==
    /\ Len(rlog) < MaxRateCalls
    /\ LET r == checkCharRateLimit(rateLimitBuckets, now, n)
       IN  /\ rateLimitBuckets' = r.buckets
           /\ rlog' = Append(rlog, [t |-> now, len |-> n, ok |-> r.ok])
    /\ UNCHANGED <<clockVars, bgVars, pageVars, batchVars>>

\* Date.now() moves on between two calls
RateTick(d) ==
    /\ ticks < MaxRateTicks
    /\ now' = now + d
    /\ ticks' = ticks + 1
    /\ UNCHANGED <<rateVars, bgVars, pageVars, batchVars>>

NextRate ==
    \/ \E n \in RateLens : RateCall(n)
    \/ \E d \in RateSteps : RateTick(d)

SpecRate == InitRate /\ [][NextRate]_vars

\* ------------------------------------------------------------------- C1

\* the characters admitted by the first k calls that are still inside the
\* window at time t, counted from the call history and not from the buckets
RECURSIVE AdmittedInWindow(_, _)
AdmittedInWindow(k, t) ==
    IF k = 0 THEN 0
    ELSE (IF rlog[k].ok /\ t - rlog[k].t <= RATE_LIMIT_WINDOW_MS
          THEN rlog[k].len ELSE 0) + AdmittedInWindow(k - 1, t)

\* C1: the admitted characters still inside the window never exceed the
\* ceiling, and a call of length n is rejected exactly when the admitted
\* characters inside the window at the time of the call plus n exceed it.
C1_RateLimiter ==
    /\ AdmittedInWindow(Len(rlog), now) <= RATE_LIMIT_MAX_CHARS
    /\ \A k \in 1..Len(rlog) :
          (~rlog[k].ok) <=>
             (AdmittedInWindow(k - 1, rlog[k].t) + rlog[k].len
                 > RATE_LIMIT_MAX_CHARS)

\* a call that exactly reaches the ceiling was admitted after a rejection
\* and after an older record had left the window
C1_Witness ==
    \E k \in 3..Len(rlog) :
        /\ rlog[k].ok
        /\ rlog[k].len > 0
        /\ AdmittedInWindow(k - 1, rlog[k].t) > 0
        /\ AdmittedInWindow(k - 1, rlog[k].t) + rlog[k].len
              = RATE_LIMIT_MAX_CHARS
        /\ \E j \in 1..(k - 1) : ~rlog[j].ok
        /\ \E j \in 1..(k - 1) :
              rlog[j].ok /\ rlog[j].len > 0
                 /\ rlog[k].t - rlog[j].t > RATE_LIMIT_WINDOW_MS

\* ------------------------------------------------------------------- C3

\* the calls that returned a payload for a payload with markers
Returned == {d \in DispIds : disp[d].pc = "done" /\ ~disp[d].raw}

\* C3: a dispatch of the same fragments under the same options, begun after
\* a first dispatch has returned and within the TTL of what it stored,
\* issues no remote call and returns the output of the first dispatch.
C3_CacheProperty ==
    \A d1 \in Returned, d2 \in Returned :
        (/\ d1 \in disp[d2].after
         /\ disp[d2].payload = disp[d1].payload
         /\ disp[d2].settings = disp[d1].settings)
        => /\ disp[d2].calls = 0
           /\ disp[d2].output = disp[d1].output

\* ------------------------------------------------------------------- C4

\* the chunks of a call no cache entry was found for
Misses(me) == {k \in 1..Len(me.chunks) : \E j \in 1..Len(me.missing) : me.missing[j] = k}

\* the chunks of a call that were answered from the cache
Hits(me) ==
    {k \in 1..Len(me.chunks) :
        /\ me.chunks[k].done
        /\ k \notin Misses(me)
        /\ Trim(me.chunks[k].text) # <<>>}

RECURSIVE SumOver(_, _)
\* the characters of the texts of the chunks in S
SumOver(me, S) ==
    IF S = {} THEN 0
    ELSE LET k == CHOOSE x \in S : TRUE
         IN  StrLen(me.chunks[k].text) + SumOver(me, S \ {k})

RECURSIVE SumAdmitted(_)
SumAdmitted(D) ==
    IF D = {} THEN 0
    ELSE LET d == CHOOSE x \in D : TRUE
         IN  disp[d].admitted + SumAdmitted(D \ {d})

Admitted == {d \in DispIds : disp[d].admitted >= 0}

\* C4: the bucket holds one record per call that went to the network, a call
\* with markers is admitted with the characters of its cache misses only, and
\* a call whose fragments are all blank or cache hits returns with no record
\* in the bucket and no remote call.
C4_HitsCostNothing ==
    /\ Len(rateLimitBuckets) = Cardinality(Admitted)
    /\ SumLen(rateLimitBuckets) = SumAdmitted(Admitted)
    /\ \A d \in DispIds :
          LET me == disp[d]
          IN  /\ me.calls > 0 => d \in Admitted
              /\ (d \in Admitted /\ ~me.raw) =>
                    /\ Misses(me) # {}
                    /\ me.admitted = SumOver(me, Misses(me))
              /\ (me.pc = "done" /\ ~me.raw /\ Misses(me) = {}) =>
                    /\ d \notin Admitted
                    /\ me.calls = 0

\* a call returned that found one fragment in the cache and sent the other
\* one out, and was admitted with fewer characters than its fragments have
C4_Witness ==
    \E d \in Returned :
        /\ Hits(disp[d]) # {}
        /\ Misses(disp[d]) # {}
        /\ disp[d].admitted = SumOver(disp[d], Misses(disp[d]))
        /\ disp[d].admitted < SumOver(disp[d], 1..Len(disp[d].chunks))

\* ------------------------------------------------------------------- C5

\* how often pat occurs in text
CountOf(text, pat) ==
    Cardinality({i \in 0..(Len(text) - Len(pat)) : Occurs(text, pat, i)})

\* C5: the output of a call that returned for a payload with markers is the
\* markers of the payload in their order, each followed by the result of its
\* fragment, and each marker occurs in it once.
C5_MarkerStructure ==
    \A d \in Returned :
        LET me == disp[d]
            input == dismantlePayload(me.payload)
            out == dismantlePayload(me.output)
        IN  /\ Len(input) > 0
            /\ Len(me.chunks) = Len(input)
            /\ me.output =
                 Concat([k \in 1..Len(input) |->
                           input[k].marker \o me.chunks[k].html])
            /\ Len(out) = Len(input)
            /\ \A k \in 1..Len(input) :
                  /\ me.chunks[k].done
                  /\ out[k].marker = input[k].marker
                  /\ out[k].text = me.chunks[k].html
                  /\ CountOf(me.output, input[k].marker) = 1

\* a call returned whose payload had a cache hit and a miss, and a call
\* returned whose payload had a blank fragment
C5_Witness ==
    /\ \E d \in Returned : Hits(disp[d]) # {} /\ Misses(disp[d]) # {}
    /\ \E d \in Returned :
          \E k \in 1..Len(disp[d].chunks) :
              Trim(disp[d].chunks[k].text) = <<>>

\* ------------------------------------------------------------------ C10

\* the calls whose fetchFromAPI threw
FetchFailed == {d \in DispIds : disp[d].error \in FetchFailures}

\* C10: a call whose remote call failed on both endpoints has failed, has
\* written no cache entry, has merged no result into a chunk and returns
\* no payload.
C10_AtomicSubRequest ==
    \A d \in FetchFailed :
        LET me == disp[d]
        IN  /\ me.pc = "failed"
            /\ me.calls = 2
            /\ me.writes = 0
            /\ me.output = <<>>
            /\ \A k \in Misses(me) : ~me.chunks[k].done
            /\ \A k \in Misses(me) :
                  CacheKey(Trim(me.chunks[k].text), me.settings) \in DOMAIN cache
                     => \E e \in DispIds \ {d} : disp[e].writes > 0

\* a call with a cache hit and a miss failed on both endpoints
C10_Witness ==
    \E d \in FetchFailed :
        /\ Hits(disp[d]) # {}
        /\ Misses(disp[d]) # {}
        /\ ~disp[d].raw

\* ------------------------------------------------------------------- C2

\* the text nodes of the batch a running pass has sent and has no response to
InFlight(p) ==
    IF passes[p].kind = "none" THEN {}
    ELSE SeqToSet(passes[p].batches[passes[p].i].nodes)

\* C2: no text node is in the batches two passes have in flight at the same
\* time, whatever the kinds of the two passes.
C2_NoDoubleDispatch ==
    \A p, q \in PassIds : p # q => InFlight(p) \cap InFlight(q) = {}

\* ------------------------------------------------------------------- C6

\* C6: when the answer of the remote service has no marker for a fragment of
\* the batch, the text node of that fragment stays in the document, and the
\* other fragments of the batch that are still in the document are replaced.
C6_OmittedMarkerSkipped ==
    lastResponse.omitted # {} =>
        /\ lastResponse.omitted \cap lastResponse.replaced = {}
        /\ (lastResponse.present \ lastResponse.omitted) \ lastResponse.detached
              \subseteq lastResponse.replaced

\* ------------------------------------------------------------------- C7

\* C7: when a text node of the batch has no parent any more as the response
\* is applied, no element other than the parents of the attached nodes of
\* the batch changes, the attached nodes the response has a text for are
\* replaced, and the pass goes on as after any other response.
C7_DetachedIsSilent ==
    lastResponse.ok /\ lastResponse.detached # {} =>
        /\ lastResponse.stray = {}
        /\ lastResponse.present \ lastResponse.detached
              \subseteq lastResponse.replaced
        /\ lastResponse.running = (lastResponse.index < lastResponse.count)
        /\ lastResponse.running => lastResponse.next = lastResponse.index + 1

\* a response with a detached node and a replaced node in the same batch
C7_Witness ==
    /\ lastResponse.ok
    /\ lastResponse.detached # {}
    /\ lastResponse.detached \cap lastResponse.present # {}
    /\ lastResponse.replaced # {}

\* ------------------------------------------------------------------- C8

\* C8: a text node whose text is no longer the text sent in the payload is
\* not replaced by the response.
C8_ChangedNotReplaced ==
    lastResponse.changed \cap lastResponse.replaced = {}

\* ------------------------------------------------------------------- C9

SessionKinds == {"mutation", "viewport", "caption"}

RateFailed == {d \in DispIds : disp[d].error = "rate"}

\* C11: a call whose cache misses the rate limiter refuses fails as a whole
\* with the rate-limit error: no fetch is issued for it, it writes no cache
\* entry, the bucket gets no record for it, it is over (nothing is kept to
\* be tried again), and it returns nothing, the fragments found in the
\* cache included.
C11_RateRejectionFailsBatch ==
    /\ Len(rateLimitBuckets) = Cardinality(Admitted)
    /\ \A d \in RateFailed :
          LET me == disp[d]
          IN  /\ me.pc = "failed"
              /\ me.calls = 0
              /\ me.writes = 0
              /\ d \notin Admitted
              /\ me.result = <<>>
              /\ me.output = <<>>
              /\ ~me.raw => \A k \in Misses(me) : ~me.chunks[k].done

\* a refused call that had found one of its two fragments in the cache
C11_Witness ==
    \E d \in RateFailed :
        /\ Hits(disp[d]) # {}
        /\ Misses(disp[d]) # {}
        /\ disp[d].pc = "failed"
        /\ disp[d].output = <<>>

\* ------------------------------------------------------------------- C12

\* the session of the given kind has no observer: it is stopped
Stopped(kind) ==
    CASE kind = "mutation" -> ~mutationObserver
      [] kind = "viewport" -> ~intersectionObserver
      [] kind = "caption"  -> ~youtubeCaptionObserver

\* this step starts a pass of the kind in slot p (its first sendMessage)
StartsPass(p, kind) == passes[p].kind # kind /\ passes'[p].kind = kind

\* this step sends the next batch of the pass of the kind in slot p
SendsNext(p, kind) ==
    /\ passes[p].kind = kind
    /\ passes'[p].kind = kind
    /\ passes'[p].i = passes[p].i + 1

\* C12: while a session is stopped no pass of it is started and no pass of
\* it sends another request; what was sent before the stop may be answered
\* and applied.
C12_StopPreventsNewWork ==
    [][\A kind \in SessionKinds :
          (Stopped(kind) /\ Stopped(kind)') =>
              \A p \in 1..NPass : ~StartsPass(p, kind) /\ ~SendsNext(p, kind)]_vars

\* ------------------------------------------------------------------- C13

\* C13: from a clearFurigana to the next applyFurigana message the mutation,
\* the viewport and the caption session are stopped, whatever pass was
\* waiting for its response when the clear came.
C13_ClearStopsSessions ==
    cleared => Stopped("mutation") /\ Stopped("viewport") /\ Stopped("caption")

\* ------------------------------------------------------------------- C14

\* C14: a read of a stored entry gives the entry exactly when less than the
\* TTL has passed since it was written; at the TTL and after it the entry
\* counts as absent.
C14_TtlBoundary ==
    \A key \in DOMAIN cache :
        cacheGet(cache, key, now, "ok").hit
            <=> (now - cache[key].timestamp < IDB_CACHE_TTL)

\* ------------------------------------------------------------------- C16

\* C16: no call fails because of the store: a call that has failed was
\* refused by the rate limiter or got no markup from the remote service.
C16_StorageAbsorbed ==
    \A d \in DispIds :
        disp[d].pc = "failed" => disp[d].error \in {"rate"} \cup FetchFailures

\* ------------------------------------------------------------------- C15

\* the options a request and a cache key may depend on
AnnotationOptions(settings) ==
    <<IF settings.furiganaType = "" THEN DEFAULT_SETTINGS.furiganaType
      ELSE settings.furiganaType,
      settings.firstOccurrenceOnly>>

\* the call with the payload and the options in the present state of the
\* service worker, run to its first fetch or to its end without one
FirstFetch(payload, settings) ==
    RunCall(BeginCall(payload, settings, {}, rateLimitBuckets, now).me,
            cache, rateLimitBuckets, now, "exception", "exception").me

\* the places of the html where a reading begins
ReadingsIn(html) == {i \in 1..Len(html) : html[i] = "<rt>"}

\* C15: in every state two calls with the same payload whose options differ
\* in display options only look up the same keys, send the same request and,
\* given the same answer, return the same output and leave the same store;
\* options that differ in the furigana type or in first-occurrence-only give
\* different keys, and every reading a call returns was written for a request
\* with the call's own furigana type and first-occurrence-only.
C15_OnlyAnnotationOptions ==
    /\ \A p \in OptionPayloads, s1 \in OptionSets, s2 \in OptionSets :
          /\ AnnotationOptions(s1) = AnnotationOptions(s2) =>
                /\ settingsSuffix(s1) = settingsSuffix(s2)
                /\ Request(FirstFetch(p, s1)) = Request(FirstFetch(p, s2))
                /\ LET r1 == handleFuriganaRequest(p, s1, cache,
                                rateLimitBuckets, now, "strip", "keep")
                       r2 == handleFuriganaRequest(p, s2, cache,
                                rateLimitBuckets, now, "strip", "keep")
                   IN  /\ r1.me.output = r2.me.output
                       /\ r1.me.calls = r2.me.calls
                       /\ r1.store = r2.store
          /\ AnnotationOptions(s1) # AnnotationOptions(s2) =>
                \A t \in {<<"a">>} : CacheKey(t, s1) # CacheKey(t, s2)
    /\ \A d \in Returned :
          \A i \in ReadingsIn(disp[d].output) :
              LET R == Reading(Request(disp[d]))
              IN  /\ i + Len(R) + 1 <= Len(disp[d].output)
                  /\ SubSeq(disp[d].output, i + 1, i + Len(R) + 1)
                        = R \o <<"</rt>">>

\* a call with other display options has returned a reading from the cache
\* entry of a call with the default options, and a call with another
\* furigana type has fetched its own
C15_Witness ==
    \E d1 \in Returned, d2 \in Returned :
        /\ disp[d1].settings.jlptLevel # disp[d2].settings.jlptLevel
        /\ disp[d1].calls > 0
        /\ disp[d2].calls = 0
        /\ Hits(disp[d2]) # {}
        /\ ReadingsIn(disp[d2].output) # {}
        /\ \E s \in OptionSets :
              /\ AnnotationOptions(s) # AnnotationOptions(disp[d2].settings)
              /\ FirstFetch(disp[d2].payload, s).calls > 0

\* ------------------------------------------------------------------- C17

\* the text holds no marker prefix, neither the one buildBatches writes nor
\* the shorter one dismantlePayload looks for
Clean(text) == IndexOf(text, SplitPrefix, 0) = 0 - 1

\* the (marker, text) pairs buildBatches joined in the batch
JoinedPairs(batch) ==
    [j \in 1..Len(batch.nodes) |->
        [marker |-> batch.markers[j], text |-> fragments[batch.nodes[j]]]]

\* the pairs as applyBatchResult sees them: marker, text, marker, text
JoinedChunks(batch) ==
    Concat([j \in 1..Len(batch.nodes) |->
              <<batch.markers[j], fragments[batch.nodes[j]]>>])

\* C17: when no text holds a marker prefix, dismantlePayload splits the
\* payload of every batch into the markers and texts that were joined, in
\* their order, and so does the split of applyBatchResult.
C17_MarkerRoundTrip ==
    (built.done /\ \A k \in 1..Len(fragments) : Clean(fragments[k])) =>
        \A b \in 1..Len(built.batches) :
            /\ built.parsed[b] = JoinedPairs(built.batches[b])
            /\ built.chunks[b] = JoinedChunks(built.batches[b])

\* ------------------------------------------------------------------- C18

RECURSIVE SumFrag(_)
\* the characters of the texts of the nodes
SumFrag(nodes) ==
    IF nodes = <<>> THEN 0
    ELSE StrLen(fragments[Head(nodes)]) + SumFrag(Tail(nodes))

\* the nodes without the last one
Front(nodes) == SubSeq(nodes, 1, Len(nodes) - 1)

\* C18: the node lists of the batches, one after the other, are the input
\* list; no batch is empty; the payload of a batch is its markers and the
\* whole texts of its nodes, so every text is in one payload; and a batch
\* ends with the node that brings its texts to MAX_BATCH_CHARS or more, or
\* with the last node of the input.
C18_GreedyPartition ==
    built.done =>
        LET bs == built.batches
        IN  /\ Concat([b \in 1..Len(bs) |-> bs[b].nodes])
                  = [k \in 1..Len(fragments) |-> k]
            /\ \A b \in 1..Len(bs) :
                  /\ bs[b].nodes # <<>>
                  /\ Len(bs[b].markers) = Len(bs[b].nodes)
                  /\ bs[b].payload =
                        Concat([j \in 1..Len(bs[b].nodes) |->
                                  bs[b].markers[j] \o fragments[bs[b].nodes[j]]])
                  /\ SumFrag(Front(bs[b].nodes)) < MAX_BATCH_CHARS
                  /\ \/ SumFrag(bs[b].nodes) >= MAX_BATCH_CHARS
                     \/ /\ b = Len(bs)
                        /\ bs[b].nodes[Len(bs[b].nodes)] = Len(fragments)

\* three nodes: the second one brings the first batch to the ceiling, the
\* third one is flushed at the end below the ceiling
C18_Witness ==
    /\ built.done
    /\ Len(fragments) = 3
    /\ Len(built.batches) = 2
    /\ Len(built.batches[1].nodes) = 2
    /\ SumFrag(built.batches[1].nodes) >= MAX_BATCH_CHARS
    /\ SumFrag(built.batches[2].nodes) < MAX_BATCH_CHARS

\* ------------------------------------------------------------------- C19

\* the batch the k-th node is in
BatchOf(k) ==
    CHOOSE b \in 1..Len(built.batches) :
        \E j \in 1..Len(built.batches[b].nodes) : built.batches[b].nodes[j] = k

\* the nodes whose text is longer than the ceiling
LongOnes == {k \in 1..Len(fragments) : StrLen(fragments[k]) > MAX_BATCH_CHARS}

RECURSIVE OpenChars(_)
\* the characters waiting in the open batch when the k-th node is taken
OpenChars(k) ==
    IF k = 1 THEN 0
    ELSE LET c == OpenChars(k - 1) + StrLen(fragments[k - 1])
         IN  IF c >= MAX_BATCH_CHARS THEN 0 ELSE c

\* C19 as claimed: a node whose text is longer than the ceiling is the only
\* node of its batch, with its whole text.
C19_LongFragmentAlone ==
    built.done =>
        \A k \in LongOnes :
            LET batch == built.batches[BatchOf(k)]
            IN  /\ batch.nodes = <<k>>
                /\ batch.payload = batch.markers[1] \o fragments[k]

\* C19 as amended: a node whose text is longer than the ceiling is the last
\* node of its batch, with its whole text at the end of the payload; it is
\* the only node of the batch exactly when no shorter text was waiting in
\* the open batch, and the node after it is in the next batch.
C19_LongFragmentClosesBatch ==
    built.done =>
        \A k \in LongOnes :
            LET batch == built.batches[BatchOf(k)]
                n == Len(batch.nodes)
                tail == batch.markers[n] \o fragments[k]
            IN  /\ batch.nodes[n] = k
                /\ Len(batch.payload) >= Len(tail)
                /\ SubSeq(batch.payload, Len(batch.payload) - Len(tail) + 1,
                           Len(batch.payload)) = tail
                /\ (n = 1) <=> (OpenChars(k) = 0)
                /\ k < Len(fragments) => BatchOf(k + 1) = BatchOf(k) + 1

\* a long text after a short one and before another one: it shares the
\* batch of the short one and closes it
C19_Witness ==
    /\ built.done
    /\ \E k \in LongOnes :
          /\ 1 < k
          /\ k < Len(fragments)
          /\ OpenChars(k) > 0
          /\ Len(built.batches[BatchOf(k)].nodes) = 2
          /\ BatchOf(k + 1) = BatchOf(k) + 1

\* ------------------------------------------------------------------- C20

\* the markers of all batches of the call
AllMarkers == Concat([b \in 1..Len(built.batches) |-> built.batches[b].markers])

\* s is the beginning of t
IsPrefix(s, t) == Len(s) <= Len(t) /\ SubSeq(t, 1, Len(s)) = s

\* C20: every batch has as many markers as nodes, and of the markers of all
\* batches of a call no two are equal and none is the beginning of another.
C20_BatchInvariant ==
    built.done =>
        /\ \A b \in 1..Len(built.batches) :
              Len(built.batches[b].markers) = Len(built.batches[b].nodes)
        /\ \A i \in 1..Len(AllMarkers), j \in 1..Len(AllMarkers) :
              i # j => /\ AllMarkers[i] # AllMarkers[j]
                       /\ ~IsPrefix(AllMarkers[i], AllMarkers[j])

\* one batch with eleven markers, the last one with a two-digit number, or
\* eleven batches
C20_Witness ==
    /\ built.done
    /\ Len(AllMarkers) = ManyFragments
    /\ \/ Len(built.batches) = 1
       \/ Len(built.batches) = ManyFragments
    /\ AllMarkers[ManyFragments] \in
          {MarkerOf(0, ManyFragments - 1), MarkerOf(ManyFragments - 1, 0)}

\* ------------------------------------------------------------------- C25

\* the tags of the markup that are not those of a ruby, rt or mark element
\* or of a span element with data-jlpt
Disallowed(html) ==
    {i \in 1..Len(html) :
        /\ html[i] \in TagTokens
        /\ TagOf(html[i]) \notin {"RUBY", "RT", "MARK"}
        /\ ~(TagOf(html[i]) = "SPAN" /\ html[i] # "<span>")}

\* the attributes of the elements of the markup
AttributesIn(html) ==
    UNION {AttrsOf(html[i]) : i \in 1..Len(html)}

\* C25: for every markup sanitizeHtmlFragment returns markup that has no
\* element outside the allowlist and no event-handler attribute, and whose
\* text content is the text content of its argument.
C25_Sanitizer ==
    sanitized.called =>
        /\ sanitized.out.returns
        /\ Disallowed(sanitized.out.html) = {}
        /\ "onclick" \notin AttributesIn(sanitized.out.html)
        /\ textContent(sanitized.out.html) = textContent(sanitized.input)

\* ------------------------------------------------------------------- C26

\* utils.js:30-33: the data fields sanitizeSafeFuriganaHtml lets through
RecognizedData ==
    {"data-surface", "data-reading", "data-dict-form", "data-dict-reading",
     "data-jlpt", "data-pos"}

\* C26: every attribute of the markup sanitizeHtmlFragment returns is class
\* or one of the six recognized data fields.
C26_AttributeAllowlist ==
    (sanitized.called /\ sanitized.out.returns) =>
        AttributesIn(sanitized.out.html) \subseteq {"class"} \cup RecognizedData

\* ------------------------------------------------------------------- C21

\* the text nodes of a sequence that are inside a wrapper
InnerNodes(nodes) == {n \in SeqToSet(nodes) : IsInner(n)}

\* the wrapper of element e has Japanese text outside every ruby element
PlainJapanese(pg, e) ==
    \E n \in SeqToSet(TextNodesIn(pg, {e}, 1)) :
        ~InRuby(pg, n) /\ HasJapanese(TextOf(pg, n))

\* C21: no selector, with the document, an element or the caption container
\* as its root, yields a text node that is inside a wrapper; no pass holds
\* one in its batches, and a response changes no element but those that held
\* a text node of its batch.
C21_Idempotence ==
    /\ InnerNodes(collectTextNodes(PageState, Elems)) = {}
    /\ \A e \in Elems : InnerNodes(collectTextNodes(PageState, {e})) = {}
    /\ InnerNodes(collectCaptionTextNodes(PageState)) = {}
    /\ \A p \in PassIds : \A n \in PassNodes(passes[p]) : ~IsInner(n)
    /\ lastResponse.stray = {}

\* applyFurigana has collected the text nodes of the document, which has a
\* wrapper with Japanese text outside ruby from a pass before
C21_Witness ==
    /\ commands = MaxCommands
    /\ lastResponse.kind = "none"
    /\ \E p \in PassIds : passes[p].kind = "initial" /\ passes[p].i = 1
    /\ \E e \in Wrappers(PageState) : PlainJapanese(PageState, e)

\* ------------------------------------------------------------------- C22

\* the step is an applyFurigana message that gets to hardClearFurigana
\* (content-main.js:44-74)
HardClears ==
    /\ commands' = commands + 1
    /\ ~cleared'
    /\ ~isProcessing
    /\ isFuriganaActive \/ softHidden
    /\ ~(softHidden /\ Wrappers(PageState) # {} /\ lastAppliedSettings # <<>>)

\* C22: a wrapper keeps the text its text node had when it was replaced, and
\* a step with hardClearFurigana leaves a text node with that text in the
\* place of every wrapper, and no wrapper and no processed marker.
C22_ExactRestoration ==
    [][/\ \A e \in Elems :
            elems[e].kind = "text" /\ elems'[e].kind = "wrapper" =>
                elems'[e].original = nodeText[elems[e].node]
       /\ HardClears =>
            /\ \A e \in Wrappers(PageState) :
                  /\ elems'[e].kind = "text"
                  /\ nodeText'[elems'[e].node] = elems[e].original
            /\ \A e \in Elems : /\ elems'[e].kind # "wrapper"
                                 /\ ~elems'[e].processed
                                 /\ ~elems'[e].captionProcessed
            /\ processedNodes' = {}]_vars

\* hardClearFurigana has restored wrappers, and the page has the text it had
\* before the annotation
C22_Witness ==
    /\ restored > 1
    /\ edits = 0
    /\ \A e \in Elems : /\ elems[e].kind = "text"
                         /\ nodeText[elems[e].node] = InitialPage[e].text
                         /\ ~elems[e].processed

\* ------------------------------------------------------------------- C27

\* C27: the response that fails an initial pass shows one alert and ends the
\* pass, whatever the number of its batches; a response to a mutation,
\* viewport or caption pass shows none, and neither does a response that
\* does not fail; the page never shows more alerts than it got messages.
C27_ErrorSurfacing ==
    /\ lastResponse.kind = "initial" =>
          /\ lastResponse.alerted = (IF lastResponse.ok THEN 0 ELSE 1)
          /\ ~lastResponse.ok => ~lastResponse.running /\ ~isProcessing
    /\ lastResponse.kind \in SessionKinds => lastResponse.alerted = 0
    /\ alerts <= commands

\* the first of several batches of an initial pass has failed, and the page
\* has shown its one alert
C27_Witness ==
    /\ lastResponse.kind = "initial"
    /\ ~lastResponse.ok
    /\ lastResponse.index < lastResponse.count
    /\ lastResponse.alerted = 1
    /\ alerts = 1

\* ------------------------------------------------------------------- C28

\* the fragments of the call that are not settled when it fetches, in the
\* order of the batch
Unsettled(me) ==
    LET open(k) == ~me.chunks[k].done
    IN  SelectSeq([k \in 1..Len(me.chunks) |-> k], open)

\* C28: the raw_text of the request of a call with markers is made of the
\* marker and the whole text, as they are in the payload, of every fragment
\* that is neither blank nor answered from the cache, in the order of the
\* payload, and of nothing else.
C28_SubPayload ==
    \A d \in DispIds :
        disp[d].pc = "fetch" /\ ~disp[d].raw =>
            LET me == disp[d]
                sent == dismantlePayload(me.payload)
                at == Unsettled(me)
            IN  /\ Len(sent) = Len(me.chunks)
                /\ Request(me).raw_text =
                      Concat([j \in 1..Len(at) |->
                                sent[at[j]].marker \o sent[at[j]].text])
                /\ \A k \in 1..Len(sent) :
                      \/ Trim(sent[k].text) = <<>>
                      \/ me.chunks[k].html # <<>>
                      => \A j \in 1..Len(at) : at[j] # k

\* a call fetches for a batch of which one fragment was answered from the
\* cache and another was not
C28_Witness ==
    \E d \in DispIds :
        /\ disp[d].pc = "fetch"
        /\ ~disp[d].raw
        /\ \E k \in 1..Len(disp[d].chunks) :
              /\ disp[d].chunks[k].done
              /\ Trim(disp[d].chunks[k].text) # <<>>
        /\ Unsettled(disp[d]) # <<>>

\* ------------------------------------------------------------------- C29

\* C29: a call of handleFuriganaRequest issues at most one fetch.
C29_NoRetry ==
    \A d \in DispIds : disp[d].calls <= 1

\* ------------------------------------------------------------------- C23

\* C23: when the response to a batch of one fragment has come with success,
\* the one text node of the batch is replaced, its element holds a wrapper,
\* and no other element has changed.
C23_SingleFragment ==
    (/\ lastResponse.kind = "initial"
     /\ lastResponse.ok
     /\ lastResponse.count = 1
     /\ Cardinality(lastResponse.nodes) = 1) =>
        /\ lastResponse.replaced = lastResponse.nodes
        /\ elems[lastResponse.at[1]].kind = "wrapper"
        /\ lastResponse.stray = {}

\* ------------------------------------------------------------------- C24

\* the text the element had before any annotation
PositionText(e) ==
    IF elems[e].kind = "wrapper" THEN elems[e].original
    ELSE IF elems[e].kind = "text" THEN nodeText[elems[e].node]
    ELSE <<>>

\* the segment of the service's answer after the first occurrence of marker
\* m, up to the next marker of the batch or the end
SegmentAfter(result, markers, m) ==
    LET from == IndexOf(result, m, 0) + Len(m)
        nexts == {IndexOf(result, markers[k], from) : k \in 1..Len(markers)}
                   \ {0 - 1}
    IN  Substring(result, from,
                  IF nexts = {} THEN Len(result) ELSE Min(nexts))

\* C24: for the one batch of an initial pass whose fragments all went to the
\* service, the call has issued one fetch; and when the answer of the service
\* has every marker of the batch, every element of the batch holds the
\* sanitized segment that follows its own marker in the answer.
C24_MarkerCorrespondence ==
    (/\ lastResponse.kind = "initial"
     /\ lastResponse.count = 1
     /\ lastResponse.fetched = Len(lastResponse.markers)
     /\ \A e \in Elems : Clean(PositionText(e))) =>
        /\ lastResponse.calls = 1
        /\ (/\ lastResponse.ok
            /\ \A k \in 1..Len(lastResponse.markers) :
                  IndexOf(lastResponse.result, lastResponse.markers[k], 0)
                     # 0 - 1) =>
              \A k \in 1..Len(lastResponse.markers) :
                 LET e == lastResponse.at[k]
                     segment == SegmentAfter(lastResponse.result,
                                             lastResponse.markers,
                                             lastResponse.markers[k])
                 IN  /\ elems[e].kind = "wrapper"
                     /\ elems[e].html =
                           sanitizeHtmlFragment(IF segment # <<>> THEN segment
                                                ELSE elems[e].original).html

\* ------------------------------------------------------------------- C30

\* where marker m begins in the processedHTML
Occurrences(html, m) == {p \in 0..Len(html) : Occurs(html, m, p)}

\* the segment between the marker m at p and the next marker of the batch
Following(html, markers, p, m) ==
    LET from == p + Len(m)
        nexts == UNION {{q \in Occurrences(html, markers[k]) : q >= from} :
                          k \in 1..Len(markers)}
    IN  Substring(html, from, IF nexts = {} THEN Len(html) ELSE Min(nexts))

\* the first segment after an occurrence of m that is not empty, or <<>>
FirstSegment(html, markers, m) ==
    LET good == {p \in Occurrences(html, m) :
                    Following(html, markers, p, m) # <<>>}
    IN  IF good = {} THEN <<>> ELSE Following(html, markers, Min(good), m)

\* C30: after applyBatchResult, whatever the processedHTML, the element of
\* every node of the batch holds a wrapper with the sanitized first
\* non-empty segment that follows an occurrence of the node's marker, and
\* the text of the node as the original; when there is no such segment the
\* element holds the node as before; no other element has changed.
C30_Reassemble ==
    reassembled.called =>
        LET batch == ReassembleBatch([nodeText |->
                        [n \in NodeIds |->
                           IF n \in Elems THEN InitialPage[n].text ELSE <<>>]])
        IN  /\ \A k \in 1..Len(batch.nodes) :
                  LET e == batch.nodes[k]
                      segment == FirstSegment(reassembled.processedHTML,
                                              batch.markers, batch.markers[k])
                  IN  IF segment = <<>>
                      THEN /\ elems[e].kind = "text"
                           /\ elems[e].node = e
                           /\ nodeText[e] = InitialPage[e].text
                      ELSE /\ elems[e].kind = "wrapper"
                           /\ elems[e].original = InitialPage[e].text
                           /\ elems[e].html = sanitizeHtmlFragment(segment).html
            /\ \A e \in Elems \ SeqToSet(batch.nodes) :
                  /\ elems[e].kind = "text"
                  /\ elems[e].node = e
                  /\ nodeText[e] = InitialPage[e].text

\* the processedHTML began with text, had the marker of the first node twice
\* with different segments, and the call has replaced the node
C30_Witness ==
    /\ reassembled.called
    /\ reassembled.processedHTML =
          <<"b">> \o MarkerOf(0, 0) \o <<"a">> \o MarkerOf(0, 0) \o <<"b">>
    /\ elems[1].kind = "wrapper"
    /\ elems[1].html = <<"a">>

\* ------------------------------------------------------------------- C31

\* the mutation passes that are running
MutationPasses == {p \in PassIds : passes[p].kind = "mutation"}

\* C31: every node in processingQueue is a node of a mutation pass that is
\* running; when no mutation pass is running processingQueue is empty.
C31_QueueReleased ==
    /\ processingQueue \subseteq
          UNION {SeqToSet(passes[p].unique) : p \in MutationPasses}
    /\ MutationPasses = {} => processingQueue = {}

\* the last batch of a mutation pass has failed, the pass is over and its
\* nodes are in the document and not in processingQueue
C31_Witness ==
    /\ lastResponse.kind = "mutation"
    /\ ~lastResponse.ok
    /\ ~lastResponse.running
    /\ lastResponse.nodes # {}
    /\ lastResponse.detached = {}
    /\ MutationPasses = {}
    /\ processingQueue = {}

\* ------------------------------------------------------------------- C32

\* the variables of the content script and of the page
contentVars ==
    <<elems, nodeText, processedNodes, processingQueue, isProcessing,
      isFuriganaActive, lastAppliedSettings, softHidden, mutationObserver,
      intersectionObserver, youtubeCaptionObserver, debounceTimer,
      captionTimer, passes, alerts, restored>>

\* C32: isProcessing is true exactly while the one initial pass is running,
\* and the step of an applyFurigana message that comes while isProcessing is
\* true changes nothing in the content script, the page and the service
\* worker.
C32_ApplyMutex ==
    [][/\ isProcessing = (passes[0].kind = "initial")
       /\ isProcessing' = (passes'[0].kind = "initial")
       /\ \A p \in 1..NPass : passes[p].kind # "initial"
       /\ (commands' = commands + 1 /\ ~cleared' /\ isProcessing) =>
             UNCHANGED <<contentVars, workerVars>>]_vars

\* an applyFurigana message has come while the initial pass waited for the
\* response to its second batch; the pass still waits for it
C32_Witness ==
    /\ commands = MaxCommands
    /\ ~cleared
    /\ isProcessing
    /\ passes[0].i = 2
    /\ \A p \in 1..NPass : passes[p].kind = "none"
    /\ lastResponse.kind = "none"
    /\ edits = 0
    /\ restored = 0
    /\ alerts = 0

\* ------------------------------------------------------------------- C33

\* the step of an applyFurigana message that comes when no initial pass is
\* running, the page is soft-hidden, has a wrapper, and a pass has completed
SoftHideApply ==
    /\ commands' = commands + 1
    /\ ~cleared'
    /\ ~isProcessing
    /\ softHidden
    /\ Wrappers(PageState) # {}
    /\ lastAppliedSettings # <<>>

\* the two settings of the message are those of the last completed pass
SameRendering ==
    /\ asked'[1].furiganaType = lastAppliedSettings[1].furiganaType
    /\ asked'[1].firstOccurrenceOnly
          = lastAppliedSettings[1].firstOccurrenceOnly

\* C33: an applyFurigana on a soft-hidden annotated page with the
\* furiganaType and firstOccurrenceOnly of the last completed pass starts no
\* pass and sends no request, leaves the tree as it is, removes the hidden
\* state and sets isFuriganaActive; with another furiganaType or
\* firstOccurrenceOnly every wrapper is restored and an initial pass over the
\* text nodes of the page starts with the settings of the message.
C33_SoftHide ==
    [][SoftHideApply =>
         IF SameRendering
         THEN /\ UNCHANGED <<elems, nodeText, passes, workerVars, restored>>
              /\ ~softHidden'
              /\ isFuriganaActive'
              /\ ~isProcessing'
         ELSE /\ Wrappers(PageState)' = {}
              /\ restored' = restored + Cardinality(Wrappers(PageState))
              /\ ~softHidden'
              /\ lastAppliedSettings' = <<>>
              /\ processedNodes' = {}
              /\ isProcessing'
              /\ passes'[0].kind = "initial"
              /\ passes'[0].i = 1
              /\ passes'[0].settings = asked'[1]
              /\ passes'[0].batches
                    = buildBatches(PageState, collectTextNodes(PageState, Elems))'
      ]_vars

\* a page annotated in hiragana was hidden and the third message asked for
\* hiragana again: the wrappers are shown and nothing runs
C33_Witness ==
    /\ commands = MaxSoftCommands
    /\ ~cleared
    /\ asked = <<PageSettings>>
    /\ lastAppliedSettings = <<PageSettings>>
    /\ Wrappers(PageState) # {}
    /\ ~softHidden
    /\ isFuriganaActive
    /\ ~isProcessing
    /\ restored = 0

\* a page annotated in hiragana was hidden and the third message asked for
\* katakana: the wrappers are gone and the initial pass runs again
C33_WitnessReprocess ==
    /\ commands = MaxSoftCommands
    /\ ~cleared
    /\ asked = <<[PageSettings EXCEPT !.furiganaType = "katakana"]>>
    /\ restored > 0
    /\ Wrappers(PageState) = {}
    /\ passes[0].kind = "initial"
    /\ passes[0].i = 1

\* ------------------------------------------------------------------- C36

\* an applyFurigana call that was not refused ends in this step: at the
\* response to its last batch, or in the step of its message
ApplyEnds ==
    \/ isProcessing /\ ~isProcessing'
    \/ /\ commands' = commands + 1
       /\ ~cleared'
       /\ ~isProcessing
       /\ ~isProcessing'

\* the settings of the call that ends
EndingSettings == IF isProcessing THEN passes[0].settings ELSE asked'[1]

\* C36: when an applyFurigana call with watchDynamic ends with
\* isFuriganaActive true, the mutation observer is connected and, the site
\* being one that uses it (part_000:69), the intersection observer too.
C36_SessionsActive ==
    [][(ApplyEnds /\ EndingSettings.watchDynamic /\ isFuriganaActive') =>
          /\ mutationObserver'
          /\ intersectionObserver'
      ]_vars

\* ------------------------------------------------------------------- C34

\* the texts the answer to call d carried after the marker of its fragment k
CarriedFor(d, k) ==
    LET parsed == dismantlePayload(disp[d].result)
    IN  {parsed[j].text : j \in {i \in 1..Len(parsed) :
                                  parsed[i].marker = disp[d].chunks[k].marker}}

\* the missed fragments of call d that went through the loop of
\* utils.js:165-173
Merged(d) == {k \in Misses(disp[d]) : disp[d].chunks[k].done}

\* the cache key of fragment k of call d
KeyFor(d, k) == CacheKey(Trim(disp[d].chunks[k].text), disp[d].settings)

\* C34: every cache entry holds the trimmed text that the answer to a call
\* carried after the marker of a missed fragment with the entry's key, and a
\* missed fragment whose marker was not in the answer has no cache entry
\* unless the answer to another call carried one for its key.
C34_CacheFromResponse ==
    /\ \A key \in DOMAIN cache :
          \E d \in DispIds : \E k \in Merged(d) :
             /\ KeyFor(d, k) = key
             /\ \E text \in CarriedFor(d, k) : cache[key].html = Trim(text)
    /\ \A d \in DispIds : \A k \in Merged(d) :
          (CarriedFor(d, k) = {} /\ KeyFor(d, k) \in DOMAIN cache) =>
             \E e \in DispIds \ {d} : \E j \in Merged(e) :
                KeyFor(e, j) = KeyFor(d, k) /\ CarriedFor(e, j) # {}

\* ------------------------------------------------------------------- C35

\* the nodes of the records a pending debounce timer will hand to
\* processMutations
TimerNodes(timer) == {timer.records[k].node : k \in 1..Len(timer.records)}

\* C35: a mutation callback that comes while the debounce timer is pending
\* leaves the timer with the records of the callbacks before it, so that
\* the pass after the delay examines the records of the whole burst.
C35_Coalesces ==
    [][(debounceTimer.armed /\ debounceTimer'.armed) =>
          TimerNodes(debounceTimer) \subseteq TimerNodes(debounceTimer')
      ]_vars

\* ------------------------------------------------------------------- C38

\* the chunk has text to annotate (utils.js:137-140)
HasText(chunk) == Trim(chunk.text) # <<>>

\* utils.js:154: the characters the rate limiter is asked for when no chunk
\* of batch b is in the cache
ColdChars(b) == SumTexts(SelectSeq(built.parsed[b], HasText))

\* C38: the rate limiter with no records in its window admits every batch
\* buildBatches has made, none of its fragments being in the cache.
C38_Admissible ==
    built.done =>
        \A b \in 1..Len(built.batches) :
            checkCharRateLimit(<<>>, now, ColdChars(b)).ok

\* ------------------------------------------------------------------- C39

\* the records of the bucket list that are within the window at time t
InWindow(t) ==
    {k \in 1..Len(rateLimitBuckets) :
        t - rateLimitBuckets[k].timestamp <= RATE_LIMIT_WINDOW_MS}

\* the remote call of some call of the service worker fails in this step
FetchFails == \E d \in DispIds : disp[d].pc = "fetch" /\ disp'[d].pc = "failed"

\* C39: the step in which the remote call of an admitted call fails leaves
\* the bucket list as it is, and no step takes a record out of the bucket
\* list before the record is older than the window.
C39_NoRefund ==
    [][/\ FetchFails => rateLimitBuckets' = rateLimitBuckets
       /\ \A k \in InWindow(now') :
             \E j \in 1..Len(rateLimitBuckets') :
                rateLimitBuckets'[j] = rateLimitBuckets[k]
      ]_vars

\* the remote call of a call failed on both endpoints and the record of its
\* admission is in the bucket list, within the window
C39_Witness ==
    \E d \in FetchFailed :
        /\ disp[d].admitted > 0
        /\ \E k \in InWindow(now) :
              rateLimitBuckets[k].len = disp[d].admitted

\* ------------------------------------------------------------------- C40

\* C40: while isProcessing is true the initial pass waits for the response
\* to a batch and the script runs on when the response has come, so that
\* the pass comes to its end, where isProcessing is set back to false.
C40_MutexReleased ==
    isProcessing => (passes[0].kind = "initial" /\ ~hung)

\* ------------------------------------------------------------------- C37

\* no pass is running and no timeout is pending
Quiet ==
    /\ \A p \in PassIds : passes[p].kind = "none"
    /\ ~debounceTimer.armed
    /\ ~captionTimer

\* C37: no pass holds a text node the Reassembler has inserted, and while a
\* pass is running or a timeout is pending the script runs on when the
\* response has come or the timeout has passed, so that the passes come to
\* their end and no timeout stays pending.
C37_Quiescence ==
    /\ \A p \in PassIds : InnerNodes(passes[p].unique) = {}
    /\ \A p \in PassIds : \A k \in 1..Len(passes[p].batches) :
          InnerNodes(passes[p].batches[k].nodes) = {}
    /\ ~Quiet => ~hung

====
